---------------------------- MODULE Spec2Model ----------------------------
(***************************************************************************)
(* WanderFlow: the Streamlit client of a remote Orkes Conductor workflow.  *)
(* The model covers WorkflowManager (src/components/workflow_manager.py),  *)
(* SessionState (src/utils/session_state.py), the page handlers of         *)
(* src/app.py and the helper functions of src/dashboard.py, together with  *)
(* the remote engine they talk to.                                         *)
(***************************************************************************)
EXTENDS Integers, Sequences, FiniteSets, TLC

VARIABLES
    tasks,      \* the engine's task list, in engine order
    nruns,      \* the number of runs the engine has started
    ss,         \* st.session_state
    pc,         \* where the Streamlit script is: idle, rerun or inside a wait
    screen,     \* the buttons the script has rendered
    tr,         \* the gateway use of the script run that has just been made
    loc,        \* the last fetch_task_by_ref call: its arguments and result
    output,     \* the output of the run that wait_for_output_key watches
    wt,         \* the wait_for_output_key call in progress
    tw,         \* the wait_for_task_to_be_available call in progress
    stuck       \* the last is_workflow_stuck call: its result

vars == <<tasks, nruns, ss, pc, screen, tr, loc, output, wt, tw, stuck>>

---------------------------------------------------------------------------
(* Bounds of the model *)

\* tasks in a list handed to fetch_task_by_ref
MaxTasks == 3

\* gateway errors in a row that one wait meets
MaxFails == 2

\* unsuccessful polls of one wait that are counted (the count saturates)
MaxMisses == 2

\* runs started in one session
MaxRuns == 1

\* tasks the engine times out and schedules again
MaxRetries == 1

\* update_task calls the engine answers for one task
MaxUpdates == 2

\* the longest timeout, in seconds, given to wait_for_task_to_be_available
MaxTimeout == 3

\* seconds one iteration of wait_for_task_to_be_available may take
MaxSleep == 2

\* tasks of the run that wait_for_task_to_be_available watches
MaxTimedTasks == 2

\* tasks of a run that is_workflow_stuck is asked about
MaxStuckTasks == 3

\* the largest index of the country selector that is remembered
MaxCountryIndex == 2

\* runs started, one after the other, from one browser session
MaxStarts == 2

\* tasks the engine holds while task ids are cached over several runs
MaxCacheTasks == 3

\* the largest step handed to set_step, and the smallest negated
MaxStepInput == 5

\* the tasks the engine schedules while the wait_task route runs
MaxFormTasks == 3

---------------------------------------------------------------------------
(* Python values *)

\* None where a task id, a run id, an option number or a duration is expected
NoId == 0

\* None where a text is expected
None == "<None>"

\* a key that a dict does not hold
Absent == "<absent>"

\* Python truthiness of a text, of None and of dict.get on an absent key
Truthy(v) == v \notin {Absent, None, ""}

Min(a, b) == IF a < b THEN a ELSE b

Max(a, b) == IF a > b THEN a ELSE b

---------------------------------------------------------------------------
(* Tasks as the gateway returns them *)

ActionableStatuses == {"SCHEDULED", "IN_PROGRESS", "PENDING"}

TerminalStatuses == {"COMPLETED", "TIMED_OUT"}

Statuses == ActionableStatuses \cup TerminalStatuses

InputKeys == {"itinerary", "itinerary1", "itinerary2", "itinerary3"}

NoInput == [k \in InputKeys |-> Absent]

NoOut == [durata |-> NoId, user_choice |-> None, selected_itinerary |-> None,
          accepted |-> FALSE]

\* updates: the update_task calls for the task that the engine has answered
Task(id, run, ref, status, input) ==
    [id |-> id, run |-> run, ref |-> ref, type |-> ref, status |-> status,
     input |-> input, out |-> NoOut, updates |-> 0]

get_workflow_tasks_of_any_run(tl, wf_id) == tl

\* executor.get_workflow(workflow_id, include_tasks=True).tasks
RECURSIVE get_workflow_tasks(_, _)
get_workflow_tasks(tl, wf_id) ==
    IF tl = <<>> THEN <<>>
    ELSE IF Head(tl).run = wf_id
         THEN <<Head(tl)>> \o get_workflow_tasks(Tail(tl), wf_id)
         ELSE get_workflow_tasks(Tail(tl), wf_id)

---------------------------------------------------------------------------
(* WorkflowManager.fetch_task_by_ref *)

RECURSIVE scan_last(_, _, _)
scan_last(tl, ref_name, i) ==
    IF i < 1 THEN 0
    ELSE IF tl[i].ref = ref_name /\ tl[i].status \in ActionableStatuses THEN i
    ELSE scan_last(tl, ref_name, i - 1)

first_match_last(tl, ref_name) == scan_last(tl, ref_name, Len(tl))

RECURSIVE scan_any_status(_, _, _)
scan_any_status(tl, ref_name, i) ==
    IF i > Len(tl) THEN 0
    ELSE IF tl[i].ref = ref_name THEN i
    ELSE scan_any_status(tl, ref_name, i + 1)

first_match_any_status(tl, ref_name) == scan_any_status(tl, ref_name, 1)

\* the loop "for task in wf.tasks": the position of the first task with the
\* reference name and an actionable status, 0 when the loop ends without one
RECURSIVE scan(_, _, _)
scan(tl, ref_name, i) ==
    IF i > Len(tl) THEN 0
    ELSE IF tl[i].ref = ref_name /\ tl[i].status \in ActionableStatuses THEN i
    ELSE scan(tl, ref_name, i + 1)

first_match(tl, ref_name) == scan(tl, ref_name, 1)

\* The position in tl of the task returned, 0 for None.  fetch_ok = FALSE:
\* executor.get_workflow raised, the except branch runs and the function falls
\* through to "return None"
fetch_task_by_ref(fetch_ok, tl, ref_name) ==
    IF fetch_ok THEN first_match(tl, ref_name) ELSE 0

\* the task_id of the task fetch_task_by_ref returns for a run, NoId for None
task_id_at(wf_tasks, i) == IF i = 0 THEN NoId ELSE wf_tasks[i].id

fetch_task_id(fetch_ok, tl, wf_id, ref_name) ==
    task_id_at(get_workflow_tasks(tl, wf_id),
               fetch_task_by_ref(fetch_ok, get_workflow_tasks(tl, wf_id), ref_name))

---------------------------------------------------------------------------
(* The run output and wait_for_output_key *)

OutputKeys == {"itinerary", "extra_info"}

OutputValues == {"", "Day 1...", "Day 2..."}

\* present = FALSE: wf.output is None; map: the dict, key by key
NoOutput == [present |-> FALSE, map |-> [k \in OutputKeys |-> Absent]]

EmptyOutput == [present |-> TRUE, map |-> [k \in OutputKeys |-> Absent]]

\* bool(wf.output): None and the empty dict are falsy
OutputTruthy(o) == o.present /\ \E k \in OutputKeys : o.map[k] # Absent

key_present(o, key) == OutputTruthy(o) /\ o.map[key] # Absent

key_ready_hardcoded(o, key) == OutputTruthy(o) /\ Truthy(o.map["itinerary"])

\* "if wf.output and wf.output.get(key)"
key_ready(o, key) == OutputTruthy(o) /\ Truthy(o.map[key])

NoWait == [impl |-> "none", key |-> "none", pc |-> "idle", ret |-> Absent,
           tick |-> FALSE, last |-> "none", fails |-> 0, misses |-> 0,
           cancelled |-> FALSE]

\* one iteration of "while True" whose get_workflow call returns
wait_for_output_key_poll(w, o) ==
    IF key_ready(o, w.key)
    THEN [w EXCEPT !.pc = "returned", !.ret = o.map[w.key],
                   !.tick = ~w.tick, !.last = "ok", !.fails = 0]
    ELSE [w EXCEPT !.tick = ~w.tick, !.last = "ok", !.fails = 0,
                   !.misses = Min(w.misses + 1, MaxMisses)]

\* one iteration whose get_workflow call raises: the manager prints a warning,
\* sleeps and continues; the dashboard's loop has no handler and the exception
\* leaves the function
wait_for_output_key_error(w) ==
    IF w.impl = "manager"
    THEN [w EXCEPT !.tick = ~w.tick, !.last = "fail", !.fails = w.fails + 1,
                   !.misses = Min(w.misses + 1, MaxMisses)]
    ELSE [w EXCEPT !.pc = "raised", !.tick = ~w.tick, !.last = "fail",
                   !.fails = w.fails + 1]


\* no fetch_task_by_ref call looked at yet
NoLoc == [called |-> FALSE, ok |-> FALSE, ref |-> "none", ret |-> 0]


\* no wait_for_task_to_be_available call made yet
NoTimed == [pc |-> "idle", ref |-> "none", timeout |-> 0, elapsed |-> 0,
            polls |-> 0, fails |-> 0, ret |-> NoId, why |-> "none"]
---------------------------------------------------------------------------
(* SessionState *)

NoOptions == [itinerary1 |-> None, itinerary2 |-> None, itinerary3 |-> None,
              task_id |-> NoId]

DEFAULTS ==
    [workflow_id |-> NoId,
     pref_task_id |-> NoId,
     show_task_id |-> NoId,
     choice_task_id |-> NoId,
     choice_travel_city_task_id |-> NoId,
     request_confirmation_task_id |-> NoId,
     show_more_info_task_id |-> NoId,
     confirmation_response |-> None,
     itinerary |-> None,
     travel_options |-> NoOptions,
     selected_travel_option |-> NoId,
     choice_task_completed |-> FALSE,
     is_short_trip |-> FALSE,
     trip_duration |-> NoId,
     extra_info |-> None,
     current_step |-> 0,
     itinerary_confirmed |-> FALSE,
     workflow_completed |-> FALSE]

\* The script's world while it runs: the session state, the engine it calls,
\* its own position and what it has rendered and called so far.
\* SessionState.set: "st.session_state[key] = value", for a key the session
\* holds already and for a new one
set(w, key, value) ==
    IF key \in DOMAIN w.ss
    THEN [w EXCEPT !.ss[key] = value]
    ELSE [w EXCEPT !.ss = (key :> value) @@ @]

\* SessionState.update(**kwargs)
update(w, kwargs) ==
    [w EXCEPT !.ss = [k \in DOMAIN @ \cup DOMAIN kwargs |->
                        IF k \in DOMAIN kwargs THEN kwargs[k] ELSE @[k]]]

\* SessionState.reset: every key of DEFAULTS back to its default
reset(w) ==
    [w EXCEPT !.ss = [k \in DOMAIN w.ss |->
                        IF k \in DOMAIN DEFAULTS THEN DEFAULTS[k] ELSE w.ss[k]]]

set_step_unclamped(w, step) == set(w, "current_step", step)

set_step(w, step) == set(w, "current_step", Max(0, Min(step, 3)))

\* SessionState.advance_step: get_current_step() + 1, at most 3
advance_step(w) == set(w, "current_step", Min(w.ss.current_step + 1, 3))

is_workflow_started(s) == s.workflow_id # NoId

has_itinerary(s) == Truthy(s.itinerary)

\* st.rerun(): the script stops here and is run again from the top
st_rerun(w) == [w EXCEPT !.pc = "rerun"]

\* st.button(...) rendered
st_button(w, key) == [w EXCEPT !.screen = @ \cup {key}]

\* st.error(...) or st.warning(...) rendered; text names the message
st_error(w, text) == [w EXCEPT !.screen = @ \cup {text}]

---------------------------------------------------------------------------
(* The gateway use of one script run *)

NoComplete == [called |-> FALSE, task_id |-> NoId, status |-> "none",
               out |-> NoOut, wf |-> NoId, ok |-> FALSE, trace |-> <<>>]

NoTrace == [cache |-> <<>>, complete |-> NoComplete, stuck_checked |-> FALSE]

GatewayCall(op, task_id, task_type, payload, ok) ==
    [op |-> op, task_id |-> task_id, task_type |-> task_type,
     worker_id |-> payload.worker_id, wf |-> payload.wf,
     status |-> payload.status, out |-> payload.out, ok |-> ok]

NoPayload == [worker_id |-> "none", wf |-> NoId, status |-> "none", out |-> NoOut]

---------------------------------------------------------------------------
(* The engine's side of poll_task and update_task *)

\* poll_task(task_type, worker_id): the engine hands out a SCHEDULED task of
\* that type, of whichever run (pick), and marks it IN_PROGRESS; with no such
\* task in that run the poll comes back empty
engine_poll(tl, task_type, pick) ==
    LET hit == { i \in 1..Len(tl) :
                   tl[i].type = task_type /\ tl[i].status = "SCHEDULED" /\ tl[i].run = pick }
    IN [i \in 1..Len(tl) |->
          IF i \in hit THEN [tl[i] EXCEPT !.status = "IN_PROGRESS"] ELSE tl[i]]

\* update_task(body): a task that is not yet terminal takes the status and the
\* output; an update of a terminal task is answered and ignored
engine_update(tl, task_id, status, out) ==
    [i \in 1..Len(tl) |->
        IF tl[i].id = task_id
        THEN IF tl[i].status \in TerminalStatuses
             THEN [tl[i] EXCEPT !.updates = @ + 1]
             ELSE [tl[i] EXCEPT !.status = status, !.out = out, !.updates = @ + 1]
        ELSE tl[i]]

---------------------------------------------------------------------------
(* WorkflowManager.complete_task, cache_task, is_workflow_stuck *)

complete_result(w, task_id, status, out, tl, trace, ok) ==
    [w EXCEPT !.tasks = tl,
              !.tr.complete = [called |-> TRUE, task_id |-> task_id, status |-> status,
                               out |-> out, wf |-> w.ss.workflow_id, ok |-> ok,
                               trace |-> trace]]

complete_task_unpolled(w, task_id, status, out, g) ==
    complete_result(w, task_id, status, out,
                    engine_update(w.tasks, task_id, status, out),
                    <<GatewayCall("get_task", task_id, "none", NoPayload, TRUE),
                      GatewayCall("update_task", task_id, "none",
                                  [worker_id |-> "streamlit_ui", wf |-> w.ss.workflow_id,
                                   status |-> status, out |-> out], TRUE)>>,
                    TRUE)

complete_task_resend(w, task_id, status, out, g) ==
    complete_result(w, task_id, status, out,
                    engine_update(engine_update(w.tasks, task_id, status, out),
                                  task_id, status, out),
                    <<GatewayCall("get_task", task_id, "none", NoPayload, TRUE),
                      GatewayCall("poll_task", NoId, w.tasks[task_id].type,
                                  [NoPayload EXCEPT !.worker_id = "streamlit_ui"], TRUE),
                      GatewayCall("update_task", task_id, "none",
                                  [worker_id |-> "streamlit_ui", wf |-> w.ss.workflow_id,
                                   status |-> status, out |-> out], TRUE)>>,
                    TRUE)

\* g.fail_at: the gateway call that raises (1 get_task, 2 poll_task,
\* 3 update_task), 0 when none does; g.pick: the run whose task the poll gets
complete_task(w, task_id, status, out, g) ==
    LET task_type == w.tasks[task_id].type
        c_get(ok) == GatewayCall("get_task", task_id, "none", NoPayload, ok)
        c_poll(ok) == GatewayCall("poll_task", NoId, task_type,
                                  [NoPayload EXCEPT !.worker_id = "streamlit_ui"], ok)
        body == [worker_id |-> "streamlit_ui", wf |-> w.ss.workflow_id,
                 status |-> status, out |-> out]
        c_update(ok) == GatewayCall("update_task", task_id, "none", body, ok)
        polled == engine_poll(w.tasks, task_type, g.pick)
        updated == engine_update(polled, task_id, status, out)
    IN IF g.fail_at = 1
       THEN complete_result(w, task_id, status, out, w.tasks, <<c_get(FALSE)>>, FALSE)
       ELSE IF g.fail_at = 2
       THEN complete_result(w, task_id, status, out, w.tasks,
                            <<c_get(TRUE), c_poll(FALSE)>>, FALSE)
       ELSE IF g.fail_at = 3
       THEN complete_result(w, task_id, status, out, polled,
                            <<c_get(TRUE), c_poll(TRUE), c_update(FALSE)>>, FALSE)
       ELSE complete_result(w, task_id, status, out, updated,
                            <<c_get(TRUE), c_poll(TRUE), c_update(TRUE)>>, TRUE)

cache_store_keep(w, ref_name, state_key, fetch_ok, id) ==
    [w EXCEPT !.ss[state_key] = IF @ = NoId THEN id ELSE @,
              !.tr.cache = Append(@, [ref |-> ref_name, key |-> state_key,
                                      ok |-> fetch_ok, before |-> w.ss[state_key],
                                      after |-> IF w.ss[state_key] = NoId
                                                THEN id ELSE w.ss[state_key]])]

\* workflow_manager.py 156-159: fetch_task_by_ref has returned the task with
\* this id (NoId: None).  Each call is written to the run's trace
cache_store(w, ref_name, state_key, fetch_ok, id) ==
    [w EXCEPT !.ss[state_key] = IF id # NoId /\ @ # id THEN id ELSE @,
              !.tr.cache = Append(@, [ref |-> ref_name, key |-> state_key,
                                      ok |-> fetch_ok, before |-> w.ss[state_key],
                                      after |-> IF id # NoId /\ w.ss[state_key] # id
                                                THEN id ELSE w.ss[state_key]])]

cache_task(w, ref_name, state_key, fetch_ok) ==
    IF w.ss.workflow_id # NoId
    THEN cache_store(w, ref_name, state_key, fetch_ok,
                     fetch_task_id(fetch_ok, w.tasks, w.ss.workflow_id, ref_name))
    ELSE w

RECURSIVE count_status(_, _)
count_status(tl, status) ==
    IF tl = <<>> THEN 0
    ELSE (IF Head(tl).status = status THEN 1 ELSE 0) + count_status(Tail(tl), status)

\* completed_tasks[0].reference_task_name
RECURSIVE first_with_status(_, _)
first_with_status(tl, status) ==
    IF tl = <<>> THEN "none"
    ELSE IF Head(tl).status = status THEN Head(tl).ref
    ELSE first_with_status(Tail(tl), status)

is_workflow_stuck_any_scheduled(fetch_ok, wf_tasks) ==
    LET completed == count_status(wf_tasks, "COMPLETED")
        scheduled == count_status(wf_tasks, "SCHEDULED")
        unhandled == \E i \in 1..Len(wf_tasks) : wf_tasks[i].ref = "LogUnhandledDuration"
        analysis == [keys |-> {"workflow_status", "total_tasks", "completed_tasks",
                               "scheduled_tasks", "has_unhandled_duration",
                               "is_stuck", "reason"},
                     completed_tasks |-> completed,
                     scheduled_tasks |-> scheduled,
                     has_unhandled_duration |-> unhandled,
                     is_stuck |-> FALSE,
                     reason |-> None]
    IN IF ~fetch_ok
       THEN [analysis EXCEPT !.keys = {"error"}]
       ELSE IF unhandled
       THEN [analysis EXCEPT !.is_stuck = TRUE,
                             !.reason = "Duration of 4 days is not handled by the workflow"]
       ELSE IF /\ completed = 1
               /\ first_with_status(wf_tasks, "COMPLETED") = "UserPreferences"
       THEN [analysis EXCEPT !.is_stuck = TRUE,
                             !.reason = "Workflow stopped after UserPreferences - check switch logic"]
       ELSE analysis

is_workflow_stuck_any_ref(fetch_ok, wf_tasks) ==
    LET completed == count_status(wf_tasks, "COMPLETED")
        scheduled == count_status(wf_tasks, "SCHEDULED")
        unhandled == \E i \in 1..Len(wf_tasks) : wf_tasks[i].ref = "LogUnhandledDuration"
        analysis == [keys |-> {"workflow_status", "total_tasks", "completed_tasks",
                               "scheduled_tasks", "has_unhandled_duration",
                               "is_stuck", "reason"},
                     completed_tasks |-> completed,
                     scheduled_tasks |-> scheduled,
                     has_unhandled_duration |-> unhandled,
                     is_stuck |-> FALSE,
                     reason |-> None]
    IN IF ~fetch_ok
       THEN [analysis EXCEPT !.keys = {"error"}]
       ELSE IF unhandled
       THEN [analysis EXCEPT !.is_stuck = TRUE,
                             !.reason = "Duration of 4 days is not handled by the workflow"]
       ELSE IF /\ completed = 1
               /\ scheduled = 0
       THEN [analysis EXCEPT !.is_stuck = TRUE,
                             !.reason = "Workflow stopped after UserPreferences - check switch logic"]
       ELSE analysis

is_workflow_stuck_count_first(fetch_ok, wf_tasks) ==
    LET completed == count_status(wf_tasks, "COMPLETED")
        scheduled == count_status(wf_tasks, "SCHEDULED")
        unhandled == \E i \in 1..Len(wf_tasks) : wf_tasks[i].ref = "LogUnhandledDuration"
        analysis == [keys |-> {"workflow_status", "total_tasks", "completed_tasks",
                               "scheduled_tasks", "has_unhandled_duration",
                               "is_stuck", "reason"},
                     completed_tasks |-> completed,
                     scheduled_tasks |-> scheduled,
                     has_unhandled_duration |-> unhandled,
                     is_stuck |-> FALSE,
                     reason |-> None]
    IN IF ~fetch_ok
       THEN [analysis EXCEPT !.keys = {"error"}]
       ELSE IF /\ completed = 1
               /\ first_with_status(wf_tasks, "COMPLETED") = "UserPreferences"
               /\ scheduled = 0
       THEN [analysis EXCEPT !.is_stuck = TRUE,
                             !.reason = "Workflow stopped after UserPreferences - check switch logic"]
       ELSE IF unhandled
       THEN [analysis EXCEPT !.is_stuck = TRUE,
                             !.reason = "Duration of 4 days is not handled by the workflow"]
       ELSE analysis

is_workflow_stuck_counts_pending(fetch_ok, wf_tasks) ==
    LET completed == count_status(wf_tasks, "COMPLETED")
        scheduled == count_status(wf_tasks, "PENDING")
        unhandled == \E i \in 1..Len(wf_tasks) : wf_tasks[i].ref = "LogUnhandledDuration"
        analysis == [keys |-> {"workflow_status", "total_tasks", "completed_tasks",
                               "scheduled_tasks", "has_unhandled_duration",
                               "is_stuck", "reason"},
                     completed_tasks |-> completed,
                     scheduled_tasks |-> scheduled,
                     has_unhandled_duration |-> unhandled,
                     is_stuck |-> FALSE,
                     reason |-> None]
    IN IF ~fetch_ok
       THEN [analysis EXCEPT !.keys = {"error"}]
       ELSE IF unhandled
       THEN [analysis EXCEPT !.is_stuck = TRUE,
                             !.reason = "Duration of 4 days is not handled by the workflow"]
       ELSE IF /\ completed = 1
               /\ first_with_status(wf_tasks, "COMPLETED") = "UserPreferences"
               /\ scheduled = 0
       THEN [analysis EXCEPT !.is_stuck = TRUE,
                             !.reason = "Workflow stopped after UserPreferences - check switch logic"]
       ELSE analysis

is_workflow_stuck_failure_flagged(fetch_ok, wf_tasks) ==
    LET unhandled == \E i \in 1..Len(wf_tasks) : wf_tasks[i].ref = "LogUnhandledDuration"
        stuck_now == \/ ~fetch_ok
                     \/ unhandled
                     \/ /\ count_status(wf_tasks, "COMPLETED") = 1
                        /\ first_with_status(wf_tasks, "COMPLETED") = "UserPreferences"
                        /\ count_status(wf_tasks, "SCHEDULED") = 0
    IN [keys |-> IF fetch_ok
                 THEN {"workflow_status", "total_tasks", "completed_tasks",
                       "scheduled_tasks", "has_unhandled_duration", "is_stuck", "reason"}
                 ELSE {"error", "is_stuck"},
        completed_tasks |-> count_status(wf_tasks, "COMPLETED"),
        scheduled_tasks |-> count_status(wf_tasks, "SCHEDULED"),
        has_unhandled_duration |-> unhandled,
        is_stuck |-> stuck_now,
        reason |-> IF ~fetch_ok \/ ~stuck_now THEN None
                   ELSE IF unhandled
                   THEN "Duration of 4 days is not handled by the workflow"
                   ELSE "Workflow stopped after UserPreferences - check switch logic"]

\* The dict is_workflow_stuck returns: keys names the keys it holds
is_workflow_stuck(fetch_ok, wf_tasks) ==
    LET completed == count_status(wf_tasks, "COMPLETED")
        scheduled == count_status(wf_tasks, "SCHEDULED")
        unhandled == \E i \in 1..Len(wf_tasks) : wf_tasks[i].ref = "LogUnhandledDuration"
        analysis == [keys |-> {"workflow_status", "total_tasks", "completed_tasks",
                               "scheduled_tasks", "has_unhandled_duration",
                               "is_stuck", "reason"},
                     completed_tasks |-> completed,
                     scheduled_tasks |-> scheduled,
                     has_unhandled_duration |-> unhandled,
                     is_stuck |-> FALSE,
                     reason |-> None]
    IN IF ~fetch_ok
       THEN [analysis EXCEPT !.keys = {"error"}]
       ELSE IF unhandled
       THEN [analysis EXCEPT !.is_stuck = TRUE,
                             !.reason = "Duration of 4 days is not handled by the workflow"]
       ELSE IF /\ completed = 1
               /\ first_with_status(wf_tasks, "COMPLETED") = "UserPreferences"
               /\ scheduled = 0
       THEN [analysis EXCEPT !.is_stuck = TRUE,
                             !.reason = "Workflow stopped after UserPreferences - check switch logic"]
       ELSE analysis

\* no is_workflow_stuck call looked at yet
NoStuck == [called |-> FALSE, ok |-> FALSE, analysis |-> is_workflow_stuck(FALSE, <<>>)]

\* stuck_analysis.get(flag) used as a condition: a missing key gives None
dict_get_flag(d, key) == key \in d.keys /\ d[key]

---------------------------------------------------------------------------
(* The pages of src/app.py.  in: what the user entered and what the gateway *)
(* does during this script run (net1, net2: whether the get_workflow calls *)
(* of the run return).                                                     *)

preferences_submitted_below_three(w1, in) ==
    IF w1.tr.complete.ok
    THEN [set(set(w1, "trip_duration", in.duration), "is_short_trip", in.duration < 3)
             EXCEPT !.pc = IF in.duration < 3 THEN "wait_choice" ELSE "wait_itin"]
    ELSE w1

\* app.py 266-305: complete_task has returned in the submitted form
preferences_submitted(w1, in) ==
    IF w1.tr.complete.ok
    THEN [set(set(w1, "trip_duration", in.duration), "is_short_trip", in.duration <= 3)
             EXCEPT !.pc = IF in.duration <= 3 THEN "wait_choice" ELSE "wait_itin"]
    ELSE w1

\* app.py 262-305: the form was submitted and passed the checks
submit_preferences(w, in) ==
    IF w.ss.pref_task_id # NoId
    THEN preferences_submitted(
             complete_task(w, w.ss.pref_task_id, "COMPLETED",
                           [NoOut EXCEPT !.durata = in.duration], in), in)
    ELSE w

\* app.py 277-288: wait_for_choice_travel_city_task has returned
after_wait_choice(w, travel_options) ==
    IF travel_options # NoOptions
    THEN st_rerun(set_step(set(set(w, "travel_options", travel_options),
                               "choice_travel_city_task_id", travel_options.task_id), 2))
    ELSE [w EXCEPT !.pc = "idle"]

\* app.py 291-301: wait_for_itinerary_task has returned
after_wait_itinerary(w, itinerary_data) ==
    IF Truthy(itinerary_data)
    THEN st_rerun(set_step(set(w, "itinerary", itinerary_data), 2))
    ELSE [w EXCEPT !.pc = "idle"]

form_error_without_duration(in) ==
    IF in.period = None THEN "Please select a travel period"
    ELSE IF ~in.destinations /\ ~in.styles
    THEN "Please select at least one destination type or vacation style"
    ELSE "none"

\* app.py 232-253: the checks on a submitted form, the error shown
form_error(in) ==
    IF in.period = None THEN "Please select a travel period"
    ELSE IF ~in.destinations /\ ~in.styles
    THEN "Please select at least one destination type or vacation style"
    ELSE IF in.duration = 4 THEN "The current workflow doesn't support exactly 4-day trips"
    ELSE "none"

\* app.py 199-214: no preference task is cached
stuck_notice(w, ev, stuck_analysis) ==
    IF /\ dict_get_flag(stuck_analysis, "is_stuck")
       /\ dict_get_flag(stuck_analysis, "has_unhandled_duration")
    THEN IF ev = "stuck_restart"
         THEN st_rerun(reset(st_button(w, "stuck_restart")))
         ELSE st_button(w, "stuck_restart")
    ELSE w

\* app.py 197-305: the page once cache_task has run
preferences_page(w, ev, in) ==
    IF w.ss.pref_task_id = NoId
    THEN IF w.ss.workflow_id # NoId
         THEN stuck_notice([w EXCEPT !.tr.stuck_checked = TRUE], ev,
                           is_workflow_stuck(in.net2,
                                             get_workflow_tasks(w.tasks, w.ss.workflow_id)))
         ELSE w
    ELSE IF ev # "submit"
         THEN st_button(w, "submit")
         ELSE IF form_error(in) # "none"
         THEN st_error(st_button(w, "submit"), form_error(in))
         ELSE submit_preferences(st_button(w, "submit"), in)

show_preferences_form(w, ev, in) ==
    preferences_page(cache_task(set_step(w, 1), "UserPreferences", "pref_task_id", in.net1),
                     ev, in)

\* f"option{option_number}"
option_choice(n) == IF n = 1 THEN "option1" ELSE IF n = 2 THEN "option2" ELSE "option3"

option_selected_unchecked(w1, option_number, itinerary_text) ==
    st_rerun(set(set(set(w1, "selected_travel_option", option_number),
                     "itinerary", itinerary_text),
                 "choice_task_completed", TRUE))

option_selected_without_flag(w1, option_number, itinerary_text) ==
    IF w1.tr.complete.ok
    THEN st_rerun(set(set(w1, "selected_travel_option", option_number),
                      "itinerary", itinerary_text))
    ELSE w1

\* app.py 411-419: complete_task has returned
option_selected(w1, option_number, itinerary_text) ==
    IF w1.tr.complete.ok
    THEN st_rerun(set(set(set(w1, "selected_travel_option", option_number),
                          "itinerary", itinerary_text),
                      "choice_task_completed", TRUE))
    ELSE w1

select_travel_option(w, option_number, itinerary_text, in) ==
    IF w.ss.choice_travel_city_task_id # NoId
    THEN option_selected(
             complete_task(w, w.ss.choice_travel_city_task_id, "COMPLETED",
                           [NoOut EXCEPT !.user_choice = option_choice(option_number),
                                         !.selected_itinerary = itinerary_text], in),
             option_number, itinerary_text)
    ELSE w

\* app.py 538-543: complete_task has returned
itinerary_accepted(w1) ==
    IF w1.tr.complete.ok
    THEN st_rerun(set(w1, "itinerary_confirmed", TRUE))
    ELSE w1

\* app.py 534-545: the button was pressed on the single-itinerary page, the
\* ShowItinerary task is cached
accept_show_task(w, in) ==
    IF w.ss.show_task_id # NoId
    THEN itinerary_accepted(
             complete_task(w, w.ss.show_task_id, "COMPLETED",
                           [NoOut EXCEPT !.selected_itinerary = w.ss.itinerary], in))
    ELSE w

\* app.py 527-548: the acceptance column
accept_itinerary(w, ev, use_show_task, in) ==
    IF w.ss.itinerary_confirmed THEN w
    ELSE IF ev # "accept_itinerary" THEN st_button(w, "accept_itinerary")
    ELSE IF use_show_task
    THEN accept_show_task(cache_task(st_button(w, "accept_itinerary"),
                                     "ShowItinerary", "show_task_id", in.net1), in)
    ELSE st_rerun(set(st_button(w, "accept_itinerary"), "itinerary_confirmed", TRUE))

\* app.py 581-600: complete_task has returned behind the Yes or the No button
additional_info_answered(w1, response) ==
    IF w1.tr.complete.ok
    THEN st_rerun(set(w1, "confirmation_response", response))
    ELSE w1

\* app.py 573-600: the question and its two buttons
ask_additional_info(w, ev, in) ==
    IF w.ss.request_confirmation_task_id # NoId /\ w.ss.confirmation_response = None
    THEN IF ev = "confirm_yes_main"
         THEN additional_info_answered(
                  complete_task(st_button(st_button(w, "confirm_yes_main"), "confirm_no_main"),
                                w.ss.request_confirmation_task_id, "COMPLETED",
                                [NoOut EXCEPT !.user_choice = "yes"], in), "Yes")
         ELSE IF ev = "confirm_no_main"
         THEN additional_info_answered(
                  complete_task(st_button(st_button(w, "confirm_yes_main"), "confirm_no_main"),
                                w.ss.request_confirmation_task_id, "COMPLETED",
                                [NoOut EXCEPT !.user_choice = "no"], in), "No")
         ELSE st_button(st_button(w, "confirm_yes_main"), "confirm_no_main")
    ELSE w

show_additional_info_options_unguarded(w, ev, in) ==
    ask_additional_info(
        cache_task(w, "AskforAddInfo_ref", "request_confirmation_task_id", in.net2),
        ev, in)

show_additional_info_options(w, ev, in) ==
    IF ~w.ss.itinerary_confirmed THEN w
    ELSE ask_additional_info(
             cache_task(w, "AskforAddInfo_ref", "request_confirmation_task_id", in.net2),
             ev, in)

\* app.py 645-652: complete_task has returned
additional_info_accepted(w1) ==
    IF w1.tr.complete.ok
    THEN st_rerun(set(set_step(w1, 3), "workflow_completed", TRUE))
    ELSE w1

\* app.py 640-654: the acceptance button of the additional information
accept_additional_info(w, ev, in) ==
    IF w.ss.show_more_info_task_id = NoId THEN w
    ELSE IF ev # "accept_additional_info" THEN st_button(w, "accept_additional_info")
    ELSE additional_info_accepted(
             complete_task(st_button(w, "accept_additional_info"),
                           w.ss.show_more_info_task_id, "COMPLETED",
                           [NoOut EXCEPT !.accepted = TRUE], in))

\* app.py 631-654: the additional information and its acceptance button
show_extra_info(w, ev, in) ==
    IF ~Truthy(w.ss.extra_info) THEN w
    ELSE accept_additional_info(
             cache_task(w, "ShowMoreInformation", "show_more_info_task_id", in.net1),
             ev, in)

handle_additional_info(w, ev, in) ==
    IF w.ss.confirmation_response = "No"
    THEN IF ~w.ss.workflow_completed
         THEN st_rerun(set(set_step(w, 3), "workflow_completed", TRUE))
         ELSE w
    ELSE IF w.ss.confirmation_response = "Yes" /\ ~Truthy(w.ss.extra_info)
    THEN [w EXCEPT !.pc = "wait_extra"]
    ELSE show_extra_info(w, ev, in)

show_final_buttons(w, ev) ==
    IF ev = "restart_final"
    THEN st_rerun(reset(st_button(w, "restart_final")))
    ELSE st_button(w, "restart_final")

\* app.py 624-629 and on: wait_for_additional_info_task has returned
after_wait_extra(w, extra_info_data, in) ==
    IF Truthy(extra_info_data)
    THEN st_rerun(set(w, "extra_info", extra_info_data))
    ELSE [show_final_buttons(show_extra_info([w EXCEPT !.pc = "run"], "none", in), "none")
             EXCEPT !.pc = "idle"]

\* a page section is reached when no st.rerun() has stopped the script before it
options_section(w, ev, in) ==
    IF w.pc = "run" THEN show_additional_info_options(w, ev, in) ELSE w

info_section(w, ev, in) ==
    IF w.pc = "run" THEN handle_additional_info(w, ev, in) ELSE w

final_section(w, ev) ==
    IF w.pc = "run" THEN show_final_buttons(w, ev) ELSE w

show_itinerary_actions(w, ev, use_show_task, in) ==
    final_section(
        info_section(
            options_section(accept_itinerary(w, ev, use_show_task, in), ev, in),
            ev, in),
        ev)

show_selected_itinerary(w, ev, in) ==
    IF ~Truthy(w.ss.itinerary) THEN w
    ELSE show_itinerary_actions(w, ev, FALSE, in)

OptionButtons == {"option1", "option2", "option3"}

option_number(ev) == IF ev = "option1" THEN 1 ELSE IF ev = "option2" THEN 2 ELSE 3

option_text(travel_options, n) ==
    IF n = 1 THEN travel_options.itinerary1
    ELSE IF n = 2 THEN travel_options.itinerary2
    ELSE travel_options.itinerary3

show_travel_options_selection(w, ev, in) ==
    IF w.ss.travel_options = NoOptions
    THEN IF ev = "back_to_prefs_no_options"
         THEN st_rerun(set_step(w, 1))
         ELSE st_button(w, "back_to_prefs_no_options")
    ELSE IF w.ss.selected_travel_option # NoId /\ w.ss.choice_task_completed
    THEN show_selected_itinerary(w, ev, in)
    ELSE IF w.ss.selected_travel_option = NoId
    THEN IF ev \in OptionButtons
         THEN select_travel_option([w EXCEPT !.screen = @ \cup OptionButtons],
                                   option_number(ev),
                                   option_text(w.ss.travel_options, option_number(ev)), in)
         ELSE [w EXCEPT !.screen = @ \cup OptionButtons]
    ELSE st_rerun(w)

show_single_itinerary_results(w, ev, in) ==
    IF ~Truthy(w.ss.itinerary)
    THEN IF ev = "back_to_prefs"
         THEN st_rerun(set(set_step(w, 1), "itinerary", None))
         ELSE st_button(w, "back_to_prefs")
    ELSE show_itinerary_actions(w, ev, TRUE, in)

show_itinerary_results(w, ev, in) ==
    IF w.ss.is_short_trip
    THEN show_travel_options_selection(set_step(w, 2), ev, in)
    ELSE show_single_itinerary_results(set_step(w, 2), ev, in)

show_completion_screen(w, ev) ==
    IF ev = "plan_another"
    THEN st_rerun(reset(st_button(set_step(w, 3), "plan_another")))
    ELSE st_button(set_step(w, 3), "plan_another")

\* start_workflow: the run id the engine gives, NoId (None) when execute raises
start_workflow(w, in) == IF in.start_ok THEN w.nruns + 1 ELSE NoId

show_welcome_screen_reset_first(w, ev, in) ==
    IF ev = "start_btn" /\ start_workflow(w, in) # NoId
    THEN st_rerun(set_step(set(reset([st_button(w, "start_btn")
                                         EXCEPT !.nruns = start_workflow(w, in)]),
                               "workflow_id", start_workflow(w, in)), 1))
    ELSE IF ev = "start_btn"
    THEN st_error(st_button(set_step(reset(w), 1), "start_btn"), "Error starting workflow")
    ELSE st_button(w, "start_btn")

show_welcome_screen(w, ev, in) ==
    IF ev = "start_btn" /\ start_workflow(w, in) # NoId
    THEN st_rerun(set_step(set(reset([st_button(w, "start_btn")
                                         EXCEPT !.nruns = start_workflow(w, in)]),
                               "workflow_id", start_workflow(w, in)), 1))
    ELSE IF ev = "start_btn"
    THEN st_error(st_button(w, "start_btn"), "Error starting workflow")
    ELSE st_button(w, "start_btn")

has_travel_content(s) == has_itinerary(s) \/ s.travel_options # NoOptions

main(w, ev, in) ==
    IF ~is_workflow_started(w.ss) THEN show_welcome_screen(w, ev, in)
    ELSE IF w.ss.workflow_completed THEN show_completion_screen(w, ev)
    ELSE IF ~has_travel_content(w.ss) THEN show_preferences_form(w, ev, in)
    ELSE show_itinerary_results(w, ev, in)

---------------------------------------------------------------------------
(* src/dashboard.py: its session, its start button and its cache_task *)

\* the dict "defaults" the dashboard keeps in st.session_state
defaults ==
    [workflow_id |-> NoId,
     pref_task_id |-> NoId,
     show_task_id |-> NoId,
     choice_task_id |-> NoId,
     itinerary |-> None,
     extra_requested |-> FALSE,
     extra_info |-> None]

\* dashboard.py fetch_task_by_ref: the first task with the reference name in
\* SCHEDULED or IN_PROGRESS; a gateway error is not caught
RECURSIVE dashboard_scan(_, _, _)
dashboard_scan(tl, ref_name, i) ==
    IF i > Len(tl) THEN 0
    ELSE IF tl[i].ref = ref_name /\ tl[i].status \in {"SCHEDULED", "IN_PROGRESS"} THEN i
    ELSE dashboard_scan(tl, ref_name, i + 1)

dashboard_fetch_task_id(wf_tasks, ref_name) ==
    task_id_at(wf_tasks, dashboard_scan(wf_tasks, ref_name, 1))

\* dashboard.py cache_task, the key being None and a run started: the fetch
\* raised (the script run ends there) or returned the task with this id
dashboard_cache_store(w, ref_name, state_key, fetch_ok, id) ==
    [w EXCEPT !.ss[state_key] = IF fetch_ok /\ id # NoId THEN id ELSE @,
              !.tr.cache = Append(@, [ref |-> ref_name, key |-> state_key,
                                      ok |-> fetch_ok, before |-> w.ss[state_key],
                                      after |-> IF fetch_ok /\ id # NoId
                                                THEN id ELSE w.ss[state_key]])]

dashboard_cache_task(w, ref_name, state_key, fetch_ok) ==
    IF w.ss[state_key] = NoId /\ w.ss.workflow_id # NoId
    THEN dashboard_cache_store(
             w, ref_name, state_key, fetch_ok,
             dashboard_fetch_task_id(get_workflow_tasks(w.tasks, w.ss.workflow_id),
                                     ref_name))
    ELSE w

sidebar_start_keep_ids(w, start_ok) ==
    IF start_ok
    THEN st_rerun([w EXCEPT !.nruns = @ + 1, !.ss.workflow_id = w.nruns + 1])
    ELSE w

\* the sidebar button "Avvia nuovo workflow": executor.execute, every key of
\* defaults back to its default, the new run's id stored, st.rerun().  With
\* execute raising (start_ok false) the script run ends before any assignment
sidebar_start(w, start_ok) ==
    IF start_ok
    THEN st_rerun([w EXCEPT !.nruns = @ + 1,
                            !.ss = [k \in DOMAIN @ |->
                                      IF k = "workflow_id" THEN w.nruns + 1
                                      ELSE IF k \in DOMAIN defaults THEN defaults[k]
                                      ELSE @[k]]])
    ELSE w
---------------------------------------------------------------------------
(* The waits of WorkflowManager that the pages block in *)

ChoiceKeys == {"itinerary1", "itinerary2", "itinerary3"}

wait_for_choice_travel_city_task_first_key(fetch_ok, tl, wf_id) ==
    LET id == fetch_task_id(fetch_ok, tl, wf_id, "ChoiceTravelCity") IN
    IF id # NoId /\ tl[id].input["itinerary1"] # Absent
    THEN [itinerary1 |-> tl[id].input["itinerary1"],
          itinerary2 |-> tl[id].input["itinerary2"],
          itinerary3 |-> tl[id].input["itinerary3"],
          task_id |-> id]
    ELSE NoOptions

\* One iteration of wait_for_choice_travel_city_task: the dict it returns,
\* NoOptions when it sleeps and polls again
wait_for_choice_travel_city_task(fetch_ok, tl, wf_id) ==
    LET id == fetch_task_id(fetch_ok, tl, wf_id, "ChoiceTravelCity") IN
    IF id # NoId /\ (\A k \in ChoiceKeys : tl[id].input[k] # Absent)
    THEN [itinerary1 |-> tl[id].input["itinerary1"],
          itinerary2 |-> tl[id].input["itinerary2"],
          itinerary3 |-> tl[id].input["itinerary3"],
          task_id |-> id]
    ELSE NoOptions

\* One iteration of wait_for_itinerary_task (ref_name ShowItinerary) and of
\* wait_for_additional_info_task (ShowMoreInformation): the value returned,
\* Absent when the loop sleeps and polls again
wait_for_itinerary_input(fetch_ok, tl, wf_id, ref_name) ==
    LET id == fetch_task_id(fetch_ok, tl, wf_id, ref_name) IN
    IF id # NoId THEN tl[id].input["itinerary"] ELSE Absent

---------------------------------------------------------------------------
(* The engine: the TripMatch_BPA workflow as the client expects it *)

HumanRefs == {"UserPreferences", "ShowItinerary", "ChoiceTravelCity",
              "AskforAddInfo_ref", "ShowMoreInformation"}

RefNames == HumanRefs \cup {"LogUnhandledDuration"}

InputsFor(ref) ==
    IF ref \in {"ShowItinerary", "ShowMoreInformation"}
    THEN { [NoInput EXCEPT !["itinerary"] = v] : v \in {Absent, "", "Day 1..."} }
    ELSE IF ref = "ChoiceTravelCity"
    THEN { [NoInput EXCEPT !["itinerary1"] = "Rome", !["itinerary2"] = "Paris",
                           !["itinerary3"] = v] : v \in {Absent, "Wien"} }
    ELSE {NoInput}

HasTask(r, ref) == \E i \in 1..Len(tasks) : tasks[i].run = r /\ tasks[i].ref = ref

Completed(r, ref) ==
    { i \in 1..Len(tasks) :
         tasks[i].run = r /\ tasks[i].ref = ref /\ tasks[i].status = "COMPLETED" }

\* the branch the run takes on the duration it was given (TripDecision)
Branch(r) ==
    IF \E i \in Completed(r, "UserPreferences") : tasks[i].out.durata <= 3
    THEN "short_trip"
    ELSE IF \E i \in Completed(r, "UserPreferences") : tasks[i].out.durata >= 5
    THEN "long_trip"
    ELSE "unmanaged_duration"

Due(r, ref) ==
    /\ ~HasTask(r, ref)
    /\ CASE ref = "UserPreferences" -> TRUE
         [] ref = "ChoiceTravelCity" ->
                Completed(r, "UserPreferences") # {} /\ Branch(r) = "short_trip"
         [] ref = "ShowItinerary" ->
                Completed(r, "UserPreferences") # {} /\ Branch(r) = "long_trip"
         [] ref = "LogUnhandledDuration" ->
                Completed(r, "UserPreferences") # {} /\ Branch(r) = "unmanaged_duration"
         [] ref = "AskforAddInfo_ref" ->
                Completed(r, "ChoiceTravelCity") \cup Completed(r, "ShowItinerary") # {}
         [] ref = "ShowMoreInformation" ->
                \E i \in Completed(r, "AskforAddInfo_ref") : tasks[i].out.user_choice = "yes"
         [] OTHER -> FALSE

TimedOut == { i \in 1..Len(tasks) : tasks[i].status = "TIMED_OUT" }

---------------------------------------------------------------------------
(* The session: script runs, the polls of a blocked run, the engine *)

Durations == {3, 4, 5}

NoIn == [net1 |-> TRUE, net2 |-> TRUE, fail_at |-> 0, pick |-> NoId,
         start_ok |-> TRUE, duration |-> 5, period |-> None,
         destinations |-> FALSE, styles |-> FALSE]

Init ==
    /\ tasks = <<>>
    /\ nruns = 0
    /\ ss = DEFAULTS
    /\ pc = "idle"
    /\ screen = {"start_btn"}
    /\ tr = NoTrace
    /\ loc = NoLoc
    /\ output = NoOutput
    /\ wt = NoWait
    /\ tw = NoTimed
    /\ stuck = NoStuck

World == [ss |-> ss, tasks |-> tasks, nruns |-> nruns, pc |-> "run",
          screen |-> {}, tr |-> NoTrace]

Becomes(w) ==
    /\ \A i \in 1..Len(w.tasks) : w.tasks[i].updates <= MaxUpdates
    /\ ss' = w.ss
    /\ tasks' = w.tasks
    /\ nruns' = w.nruns
    /\ pc' = IF w.pc = "run" THEN "idle" ELSE w.pc
    /\ screen' = w.screen
    /\ tr' = w.tr
    /\ UNCHANGED <<loc, output, wt, tw, stuck>>

\* one run of the script from the top, with button ev pressed ("none": a
\* rerun that no button caused)
ScriptRun(ev, in) == Becomes(main(World, ev, in))

\* a widget can be used while the script is idle or blocked in a wait; using
\* it stops the script and runs it again
CanClick(b) == pc \in {"idle", "wait_choice", "wait_itin", "wait_extra"} /\ b \in screen

\* what the gateway does to a complete_task call: the call that raises, and
\* the run whose SCHEDULED task the poll is given (NoId: the poll is empty)
Gateways ==
    { g \in [fail_at : 0..3, pick : 0..nruns] : g.fail_at \in {1, 2} => g.pick = NoId }

\* a rerun comes at any moment: any widget of the page asks for one
Rerun ==
    /\ pc \in {"idle", "rerun", "wait_choice", "wait_itin", "wait_extra"}
    /\ \E n1 \in BOOLEAN, n2 \in BOOLEAN :
        ScriptRun("none", [NoIn EXCEPT !.net1 = n1, !.net2 = n2])

ClickStart ==
    /\ CanClick("start_btn")
    /\ nruns < MaxRuns
    /\ \E ok \in BOOLEAN : ScriptRun("start_btn", [NoIn EXCEPT !.start_ok = ok])

Submit ==
    /\ CanClick("submit")
    /\ \E d \in Durations, p \in {None, "date"}, ds \in BOOLEAN, st \in BOOLEAN,
          n1 \in BOOLEAN :
          LET form == [NoIn EXCEPT !.duration = d, !.period = p, !.destinations = ds,
                                   !.styles = st, !.net1 = n1]
          IN IF form_error(form) # "none"
             THEN ScriptRun("submit", form)
             ELSE \E g \in Gateways :
                     ScriptRun("submit", [form EXCEPT !.fail_at = g.fail_at,
                                                      !.pick = g.pick])

ClickOption ==
    \E b \in OptionButtons :
        /\ CanClick(b)
        /\ \E g \in Gateways :
              ScriptRun(b, [NoIn EXCEPT !.fail_at = g.fail_at, !.pick = g.pick])

ClickAccept ==
    /\ CanClick("accept_itinerary")
    /\ \E n1 \in BOOLEAN, g \in Gateways :
          ScriptRun("accept_itinerary",
                    [NoIn EXCEPT !.net1 = n1, !.fail_at = g.fail_at, !.pick = g.pick])

ClickAnswer ==
    \E b \in {"confirm_yes_main", "confirm_no_main"} :
        /\ CanClick(b)
        /\ \E n2 \in BOOLEAN, g \in Gateways :
              ScriptRun(b, [NoIn EXCEPT !.net2 = n2, !.fail_at = g.fail_at,
                                        !.pick = g.pick])

ClickAcceptInfo ==
    /\ CanClick("accept_additional_info")
    /\ \E n1 \in BOOLEAN, n2 \in BOOLEAN, g \in Gateways :
          ScriptRun("accept_additional_info",
                    [NoIn EXCEPT !.net1 = n1, !.net2 = n2, !.fail_at = g.fail_at,
                                 !.pick = g.pick])

RestartButtons == {"stuck_restart", "restart_final", "plan_another",
                   "back_to_prefs_no_options", "back_to_prefs"}

ClickRestart ==
    \E b \in RestartButtons :
        /\ CanClick(b)
        /\ \E n1 \in BOOLEAN, n2 \in BOOLEAN :
              ScriptRun(b, [NoIn EXCEPT !.net1 = n1, !.net2 = n2])

\* the script goes on behind a wait that has returned, with what it had rendered
Blocked == [World EXCEPT !.screen = screen]

PollChoice ==
    /\ pc = "wait_choice"
    /\ \E fetch_ok \in BOOLEAN :
          LET travel_options ==
                  wait_for_choice_travel_city_task(fetch_ok, tasks, ss.workflow_id)
          IN IF travel_options # NoOptions
             THEN Becomes(after_wait_choice(Blocked, travel_options))
             ELSE tr' = NoTrace /\ UNCHANGED <<tasks, nruns, ss, pc, screen, loc, output, wt, tw, stuck>>

PollItinerary ==
    /\ pc = "wait_itin"
    /\ \E fetch_ok \in BOOLEAN :
          LET itinerary_data ==
                  wait_for_itinerary_input(fetch_ok, tasks, ss.workflow_id, "ShowItinerary")
          IN IF itinerary_data # Absent
             THEN Becomes(after_wait_itinerary(Blocked, itinerary_data))
             ELSE tr' = NoTrace /\ UNCHANGED <<tasks, nruns, ss, pc, screen, loc, output, wt, tw, stuck>>

PollExtraInfo ==
    /\ pc = "wait_extra"
    /\ \E fetch_ok \in BOOLEAN :
          LET extra_info_data ==
                  wait_for_itinerary_input(fetch_ok, tasks, ss.workflow_id,
                                           "ShowMoreInformation")
          IN IF extra_info_data # Absent
             THEN Becomes(after_wait_extra(Blocked, extra_info_data, NoIn))
             ELSE tr' = NoTrace /\ UNCHANGED <<tasks, nruns, ss, pc, screen, loc, output, wt, tw, stuck>>

EngineSchedule ==
    \E r \in 1..nruns, ref \in RefNames :
        /\ Due(r, ref)
        /\ \E input \in InputsFor(ref) :
              tasks' = Append(tasks,
                              Task(Len(tasks) + 1, r, ref,
                                   IF ref \in HumanRefs THEN "SCHEDULED" ELSE "COMPLETED",
                                   input))
        /\ tr' = NoTrace
        /\ UNCHANGED <<nruns, ss, pc, screen, loc, output, wt, tw, stuck>>

\* a task nobody answered in time: the engine gives it up and schedules the
\* same reference name again, as a new task
EngineTimeout ==
    \E i \in 1..Len(tasks) :
        /\ tasks[i].status \in ActionableStatuses
        /\ Cardinality(TimedOut) < MaxRetries
        /\ tasks' = Append([tasks EXCEPT ![i].status = "TIMED_OUT"],
                           Task(Len(tasks) + 1, tasks[i].run, tasks[i].ref, "SCHEDULED",
                                tasks[i].input))
        /\ tr' = NoTrace
        /\ UNCHANGED <<nruns, ss, pc, screen, loc, output, wt, tw, stuck>>

Next ==
    \/ Rerun
    \/ ClickStart
    \/ Submit
    \/ ClickOption
    \/ ClickAccept
    \/ ClickAnswer
    \/ ClickAcceptInfo
    \/ ClickRestart
    \/ PollChoice
    \/ PollItinerary
    \/ PollExtraInfo
    \/ EngineSchedule
    \/ EngineTimeout

Spec == Init /\ [][Next]_vars

---------------------------------------------------------------------------
(* fetch_task_by_ref on every task list within the bounds *)

LocRefs == {"UserPreferences", "ShowItinerary"}

LocLists ==
    UNION { { [i \in 1..n |-> Task(i, 1, f[i][1], f[i][2], NoInput)] :
              f \in [1..n -> LocRefs \X Statuses] } : n \in 0..MaxTasks }

InitLocate ==
    /\ tasks \in LocLists
    /\ loc = NoLoc
    /\ output = NoOutput
    /\ wt = NoWait
    /\ nruns = 1
    /\ ss = DEFAULTS
    /\ pc = "idle"
    /\ screen = {}
    /\ tr = NoTrace
    /\ tw = NoTimed
    /\ stuck = NoStuck

fetch_task_by_ref_polls(tl, ref_name) == engine_poll(tl, ref_name, 1)

\* The engine's task list after a fetch_task_by_ref call.  The one request of
\* the call is executor.get_workflow(workflow_id, include_tasks=True), a read:
\* nothing is polled and nothing is updated
fetch_task_by_ref_requests(tl, ref_name) == tl

Locate ==
    \E ref_name \in LocRefs, fetch_ok \in BOOLEAN :
        /\ loc' = [called |-> TRUE, ok |-> fetch_ok, ref |-> ref_name,
                   ret |-> fetch_task_by_ref(fetch_ok, tasks, ref_name)]
        /\ tasks' = fetch_task_by_ref_requests(tasks, ref_name)
        /\ screen' = IF fetch_ok THEN screen ELSE screen \cup {"Error fetching task"}
        /\ UNCHANGED <<nruns, ss, pc, tr, output, wt, tw, stuck>>

NextLocate == Locate

SpecLocate == InitLocate /\ [][NextLocate]_vars

---------------------------------------------------------------------------
(* wait_for_output_key against a run whose output the engine writes *)

InitWait ==
    /\ tasks = <<>>
    /\ loc = NoLoc
    /\ output \in {NoOutput, EmptyOutput}
    /\ \E impl \in {"manager", "dashboard"}, key \in OutputKeys :
          wt = [NoWait EXCEPT !.impl = impl, !.key = key, !.pc = "polling"]
    /\ nruns = 1
    /\ ss = DEFAULTS
    /\ pc = "idle"
    /\ screen = {}
    /\ tr = NoTrace
    /\ tw = NoTimed
    /\ stuck = NoStuck

WaitPollOk ==
    /\ wt.pc = "polling"
    /\ wt' = wait_for_output_key_poll(wt, output)
    /\ UNCHANGED <<tasks, nruns, ss, pc, screen, tr, loc, output, tw, stuck>>

WaitPollError ==
    /\ wt.pc = "polling"
    /\ wt.fails < MaxFails
    /\ wt' = wait_for_output_key_error(wt)
    /\ UNCHANGED <<tasks, nruns, ss, pc, screen, tr, loc, output, tw, stuck>>

\* the engine writes the run's output, one key at a time, at any moment
EngineSetOutput ==
    \E k \in OutputKeys, v \in OutputValues \cup {Absent} :
        /\ output' = [present |-> TRUE, map |-> [output.map EXCEPT ![k] = v]]
        /\ UNCHANGED <<tasks, nruns, ss, pc, screen, tr, loc, wt, tw, stuck>>

EngineClearOutput ==
    /\ output' = NoOutput
    /\ UNCHANGED <<tasks, nruns, ss, pc, screen, tr, loc, wt, tw, stuck>>

\* somebody outside the wait asks it to stop (the page is abandoned, the
\* server shuts down); no parameter or shared flag of the loops receives this
Cancel ==
    /\ wt.pc = "polling"
    /\ ~wt.cancelled
    /\ wt' = [wt EXCEPT !.cancelled = TRUE]
    /\ UNCHANGED <<tasks, nruns, ss, pc, screen, tr, loc, output, tw, stuck>>

WaitPoll == WaitPollOk \/ WaitPollError

NextWait ==
    \/ WaitPollOk
    \/ WaitPollError
    \/ EngineSetOutput
    \/ EngineClearOutput
    \/ Cancel

SpecWait == InitWait /\ [][NextWait]_vars

\* the loop runs until it returns: a poll is always taken again
SpecWaitFair == SpecWait /\ WF_vars(WaitPoll)


---------------------------------------------------------------------------
(* wait_for_task_to_be_available against a run the engine moves on *)

within_timeout_always(w) == TRUE

\* "while time.time() - start_time < timeout"
within_timeout(w) == w.elapsed < w.timeout

\* one iteration of the loop.  fetch_task_by_ref has swallowed a transport
\* error (fetch_ok false) and returned None, so the iteration sleeps like one
\* that found nothing; the loop's own "except Exception" is never entered.
\* secs: the time the iteration took, the one-second sleep included
wait_for_task_to_be_available_poll(w, fetch_ok, id, secs) ==
    IF id # NoId
    THEN [w EXCEPT !.pc = "returned", !.ret = id, !.why = "found",
                   !.polls = @ + 1]
    ELSE [w EXCEPT !.elapsed = Min(@ + secs, MaxTimeout + MaxSleep),
                   !.polls = @ + 1,
                   !.fails = IF fetch_ok THEN @ ELSE @ + 1]

\* the loop condition is false: st.warning("Timeout ..."), return None
wait_for_task_to_be_available_expire(w) ==
    [w EXCEPT !.pc = "returned", !.ret = NoId, !.why = "timeout"]

InitTimed ==
    /\ tasks = <<>>
    /\ \E ref_name \in LocRefs, timeout \in 0..MaxTimeout :
          tw = [NoTimed EXCEPT !.pc = "loop", !.ref = ref_name, !.timeout = timeout]
    /\ loc = NoLoc
    /\ output = NoOutput
    /\ wt = NoWait
    /\ stuck = NoStuck
    /\ nruns = 1
    /\ ss = DEFAULTS
    /\ pc = "idle"
    /\ screen = {}
    /\ tr = NoTrace

TimedPoll ==
    /\ tw.pc = "loop"
    /\ within_timeout(tw)
    /\ \E fetch_ok \in BOOLEAN, secs \in 1..MaxSleep :
          tw' = wait_for_task_to_be_available_poll(
                    tw, fetch_ok, fetch_task_id(fetch_ok, tasks, 1, tw.ref), secs)
    /\ UNCHANGED <<tasks, nruns, ss, pc, screen, tr, loc, output, wt, stuck>>

TimedExpire ==
    /\ tw.pc = "loop"
    /\ ~within_timeout(tw)
    /\ tw' = wait_for_task_to_be_available_expire(tw)
    /\ UNCHANGED <<tasks, nruns, ss, pc, screen, tr, loc, output, wt, stuck>>

\* the engine schedules a task of the run
TimedEngineSchedule ==
    /\ Len(tasks) < MaxTimedTasks
    /\ \E ref_name \in LocRefs :
          tasks' = Append(tasks, Task(Len(tasks) + 1, 1, ref_name, "SCHEDULED", NoInput))
    /\ UNCHANGED <<nruns, ss, pc, screen, tr, loc, output, wt, tw, stuck>>

\* a task of the run ends: somebody completes it, or the engine times it out
TimedEngineEnd ==
    \E i \in 1..Len(tasks), status \in TerminalStatuses :
        /\ tasks[i].status \notin TerminalStatuses
        /\ tasks' = [tasks EXCEPT ![i].status = status]
        /\ UNCHANGED <<nruns, ss, pc, screen, tr, loc, output, wt, tw, stuck>>

TimedStep == TimedPoll \/ TimedExpire

NextTimed == TimedPoll \/ TimedExpire \/ TimedEngineSchedule \/ TimedEngineEnd

SpecTimed == InitTimed /\ [][NextTimed]_vars

\* the loop is not suspended for ever: its next iteration is always taken
SpecTimedFair == SpecTimed /\ WF_vars(TimedStep)

---------------------------------------------------------------------------
(* is_workflow_stuck on every task list of one run within the bounds *)

StuckRefs == {"UserPreferences", "ShowItinerary", "LogUnhandledDuration"}

StuckStatuses == {"SCHEDULED", "IN_PROGRESS", "PENDING", "COMPLETED"}

StuckLists ==
    UNION { { [i \in 1..n |-> Task(i, 1, f[i][1], f[i][2], NoInput)] :
              f \in [1..n -> StuckRefs \X StuckStatuses] } : n \in 0..MaxStuckTasks }

InitStuck ==
    /\ tasks \in StuckLists
    /\ stuck = NoStuck
    /\ loc = NoLoc
    /\ output = NoOutput
    /\ wt = NoWait
    /\ tw = NoTimed
    /\ nruns = 1
    /\ ss = DEFAULTS
    /\ pc = "idle"
    /\ screen = {}
    /\ tr = NoTrace

Classify ==
    \E fetch_ok \in BOOLEAN :
        /\ stuck' = [called |-> TRUE, ok |-> fetch_ok,
                     analysis |-> is_workflow_stuck(fetch_ok, get_workflow_tasks(tasks, 1))]
        /\ UNCHANGED <<tasks, nruns, ss, pc, screen, tr, loc, output, wt, tw>>

NextStuck == Classify

SpecStuck == InitStuck /\ [][NextStuck]_vars

---------------------------------------------------------------------------
(* SessionState: set, update and reset called in any order *)

\* the keys written here: four of DEFAULTS and one that is not in DEFAULTS,
\* the index that render_country_selector keeps in st.session_state
SessKeys == {"itinerary", "current_step", "workflow_completed", "trip_duration",
             "last_valid_country_index"}

SessValues(key) ==
    CASE key = "itinerary" -> {None, "Day 1..."}
      [] key = "current_step" -> 0..3
      [] key = "workflow_completed" -> BOOLEAN
      [] key = "trip_duration" -> {NoId, 3, 5}
      [] key = "last_valid_country_index" -> 0..MaxCountryIndex

\* the state after SessionState.initialize()
InitSession ==
    /\ ss = DEFAULTS
    /\ tasks = <<>>
    /\ nruns = 0
    /\ pc = "idle"
    /\ screen = {}
    /\ tr = NoTrace
    /\ loc = NoLoc
    /\ output = NoOutput
    /\ wt = NoWait
    /\ tw = NoTimed
    /\ stuck = NoStuck

\* pc names the SessionState call made last
SessSet ==
    \E key \in SessKeys :
        \E value \in SessValues(key) :
            /\ ss' = set(World, key, value).ss
            /\ pc' = "set"
            /\ UNCHANGED <<tasks, nruns, screen, tr, loc, output, wt, tw, stuck>>

SessUpdate ==
    \E step \in SessValues("current_step"), done \in SessValues("workflow_completed") :
        /\ ss' = update(World, [current_step |-> step, workflow_completed |-> done]).ss
        /\ pc' = "update"
        /\ UNCHANGED <<tasks, nruns, screen, tr, loc, output, wt, tw, stuck>>

SessReset ==
    /\ ss' = reset(World).ss
    /\ pc' = "reset"
    /\ UNCHANGED <<tasks, nruns, screen, tr, loc, output, wt, tw, stuck>>

SessAdvance ==
    /\ ss' = advance_step(World).ss
    /\ pc' = "advance_step"
    /\ UNCHANGED <<tasks, nruns, screen, tr, loc, output, wt, tw, stuck>>

\* set_step with a step inside and outside 0..3
SessSetStep(step) ==
    /\ ss' = set_step(World, step).ss
    /\ pc' = "set_step"
    /\ UNCHANGED <<tasks, nruns, screen, tr, loc, output, wt, tw, stuck>>

NextSession ==
    \/ SessSet
    \/ SessUpdate
    \/ SessReset
    \/ SessAdvance
    \/ \E step \in (0 - MaxStepInput)..MaxStepInput : SessSetStep(step)

SpecSession == InitSession /\ [][NextSession]_vars

---------------------------------------------------------------------------
(* The cached task ids over several runs: start, reset and cache_task of    *)
(* the app and of the dashboard, against an engine that schedules tasks     *)

CacheRefs == {"UserPreferences", "ShowItinerary"}

\* cache_task("UserPreferences", "pref_task_id") and
\* cache_task("ShowItinerary", "show_task_id"), made by both programs
CachePairs == {<<"UserPreferences", "pref_task_id">>, <<"ShowItinerary", "show_task_id">>}

\* the session is the dashboard's
IsDashboard == "extra_requested" \in DOMAIN ss

InitCache ==
    /\ ss \in {DEFAULTS, defaults}
    /\ tasks = <<>>
    /\ nruns = 0
    /\ pc = "idle"
    /\ screen = {}
    /\ tr = NoTrace
    /\ loc = NoLoc
    /\ output = NoOutput
    /\ wt = NoWait
    /\ tw = NoTimed
    /\ stuck = NoStuck

\* what a script run leaves: the session, the run count, its position and trace
CacheBecomes(w) ==
    /\ ss' = w.ss
    /\ nruns' = w.nruns
    /\ pc' = IF w.pc = "run" THEN "idle" ELSE w.pc
    /\ tr' = w.tr
    /\ UNCHANGED <<tasks, screen, loc, output, wt, tw, stuck>>

\* app.py: the start button of the welcome screen, shown while no run is started
CacheStart ==
    /\ ~IsDashboard
    /\ ~is_workflow_started(ss)
    /\ nruns < MaxStarts
    /\ \E ok \in BOOLEAN :
          CacheBecomes([show_welcome_screen(World, "start_btn",
                                            [NoIn EXCEPT !.start_ok = ok])
                           EXCEPT !.screen = {}])

\* dashboard.py: the sidebar button, shown on every page
DashStart ==
    /\ IsDashboard
    /\ nruns < MaxStarts
    /\ \E ok \in BOOLEAN : CacheBecomes(sidebar_start(World, ok))

\* app.py: a restart button, whose handler is SessionState.reset() and st.rerun()
CacheReset ==
    /\ ~IsDashboard
    /\ is_workflow_started(ss)
    /\ CacheBecomes(st_rerun(reset(World)))

\* both programs call cache_task only on a page shown while a run is started
CacheTask ==
    /\ is_workflow_started(ss)
    /\ \E p \in CachePairs, fetch_ok \in BOOLEAN :
        IF IsDashboard
        THEN CacheBecomes(dashboard_cache_task(World, p[1], p[2], fetch_ok))
        ELSE CacheBecomes(cache_task(World, p[1], p[2], fetch_ok))

CacheEngineSchedule ==
    /\ Len(tasks) < MaxCacheTasks
    /\ \E r \in 1..nruns, ref_name \in CacheRefs :
          tasks' = Append(tasks, Task(Len(tasks) + 1, r, ref_name, "SCHEDULED", NoInput))
    /\ tr' = NoTrace
    /\ UNCHANGED <<nruns, ss, pc, screen, loc, output, wt, tw, stuck>>

\* a task ends: this client or another worker has completed it
CacheEngineEnd ==
    \E i \in 1..Len(tasks) :
        /\ tasks[i].status = "SCHEDULED"
        /\ tasks' = [tasks EXCEPT ![i].status = "COMPLETED"]
        /\ tr' = NoTrace
        /\ UNCHANGED <<nruns, ss, pc, screen, loc, output, wt, tw, stuck>>

\* app.py: a handler calls complete_task for a cached task id.  The poll is
\* answered with a SCHEDULED task of the type from whichever run has one
\* (pick), with nothing when no run has one
CacheComplete ==
    /\ ~IsDashboard
    /\ is_workflow_started(ss)
    /\ \E p \in CachePairs, fail_at \in 0..3, pick \in 0..nruns :
          /\ ss[p[2]] # NoId
          /\ tasks[ss[p[2]]].updates < MaxUpdates
          /\ IF \E i \in 1..Len(tasks) :
                    tasks[i].type = p[1] /\ tasks[i].status = "SCHEDULED"
             THEN \E i \in 1..Len(tasks) :
                     /\ tasks[i].type = p[1]
                     /\ tasks[i].status = "SCHEDULED"
                     /\ tasks[i].run = pick
             ELSE pick = NoId
          /\ tasks' = complete_task(World, ss[p[2]], "COMPLETED", NoOut,
                                    [fail_at |-> fail_at, pick |-> pick]).tasks
          /\ tr' = complete_task(World, ss[p[2]], "COMPLETED", NoOut,
                                 [fail_at |-> fail_at, pick |-> pick]).tr
          /\ pc' = "idle"
    /\ UNCHANGED <<nruns, ss, screen, loc, output, wt, tw, stuck>>

NextCache ==
    \/ CacheStart
    \/ DashStart
    \/ CacheReset
    \/ CacheTask
    \/ CacheComplete
    \/ CacheEngineSchedule
    \/ CacheEngineEnd

SpecCache == InitCache /\ [][NextCache]_vars

---------------------------------------------------------------------------
(* cache_task_with_wait around the timed wait, called again and again       *)

\* "if SessionState.get(state_key) is None and SessionState.get("workflow_id")"
cache_task_with_wait_waits(s, state_key) ==
    s[state_key] = NoId /\ is_workflow_started(s)

\* one call as the trace keeps it: ok is the boolean the call returned
cache_with_wait_entry(ref_name, state_key, result, before, after) ==
    [ref |-> ref_name, key |-> state_key, ok |-> result, before |-> before,
     after |-> after]

cache_task_with_wait_store_anything(w, ref_name, state_key, task_id) ==
    [w EXCEPT !.ss[state_key] = task_id,
              !.tr.cache = <<cache_with_wait_entry(ref_name, state_key, TRUE,
                                                   w.ss[state_key], task_id)>>]

\* workflow_manager.py 201-204: wait_for_task_to_be_available has returned
\* task_id (NoId: None)
cache_task_with_wait_store(w, ref_name, state_key, task_id) ==
    IF task_id # NoId
    THEN [set(w, state_key, task_id)
             EXCEPT !.tr.cache = <<cache_with_wait_entry(ref_name, state_key, TRUE,
                                                         w.ss[state_key], task_id)>>]
    ELSE [w EXCEPT !.tr.cache = <<cache_with_wait_entry(ref_name, state_key, FALSE,
                                                        w.ss[state_key],
                                                        w.ss[state_key])>>]

\* the state key cache_task_with_wait is called with for a reference name
StateKeyOf(ref_name) == (CHOOSE p \in CachePairs : p[1] = ref_name)[2]

InitCacheWait ==
    /\ ss \in {DEFAULTS, [DEFAULTS EXCEPT !.workflow_id = 1]}
    /\ tasks = <<>>
    /\ nruns = 1
    /\ tw = NoTimed
    /\ tr = NoTrace
    /\ pc = "idle"
    /\ screen = {}
    /\ loc = NoLoc
    /\ output = NoOutput
    /\ wt = NoWait
    /\ stuck = NoStuck

\* workflow_manager.py 199-200 and 205: the call starts the wait, or returns at
\* once "SessionState.get(state_key) is not None"
CacheWaitCall ==
    /\ tw.pc # "loop"
    /\ tw.pc # "returned"
    /\ \E p \in CachePairs, timeout \in 0..MaxTimeout :
          IF cache_task_with_wait_waits(ss, p[2])
          THEN /\ tw' = [NoTimed EXCEPT !.pc = "loop", !.ref = p[1], !.timeout = timeout]
               /\ tr' = NoTrace
          ELSE /\ tw' = [NoTimed EXCEPT !.pc = "skipped", !.ref = p[1]]
               /\ tr' = [NoTrace EXCEPT !.cache =
                            <<cache_with_wait_entry(p[1], p[2], ss[p[2]] # NoId,
                                                    ss[p[2]], ss[p[2]])>>]
    /\ UNCHANGED <<tasks, nruns, ss, pc, screen, loc, output, wt, stuck>>

\* workflow_manager.py 201-204 once the wait has returned
CacheWaitReturn ==
    /\ tw.pc = "returned"
    /\ ss' = cache_task_with_wait_store(World, tw.ref, StateKeyOf(tw.ref), tw.ret).ss
    /\ tr' = cache_task_with_wait_store(World, tw.ref, StateKeyOf(tw.ref), tw.ret).tr
    /\ tw' = [tw EXCEPT !.pc = "stored"]
    /\ UNCHANGED <<tasks, nruns, pc, screen, loc, output, wt, stuck>>

NextCacheWait ==
    \/ CacheWaitCall
    \/ CacheWaitReturn
    \/ TimedPoll
    \/ TimedExpire
    \/ TimedEngineSchedule
    \/ TimedEngineEnd

SpecCacheWait == InitCacheWait /\ [][NextCacheWait]_vars

---------------------------------------------------------------------------
(* The wait_task route of the form app (app_form.py), against an engine     *)
(* that schedules and advances the tasks of the run while the route waits.  *)
(* tw holds the route: polls counts the fetches, ret is the task id of the  *)
(* redirect, why is the response                                            *)

\* app_form.py 69
max_retries == 5

FormRefs == {"WaitUserRequest", "UserPreferences"}

RECURSIVE wait_task_scan_any_status(_, _)
wait_task_scan_any_status(tl, i) ==
    IF i > Len(tl) THEN 0
    ELSE IF tl[i].ref = "WaitUserRequest" /\ tl[i].id # NoId THEN i
    ELSE wait_task_scan_any_status(tl, i + 1)

\* "for t in wf.tasks": the position of the first task that is WaitUserRequest,
\* IN_PROGRESS and has a task id, 0 when the loop ends without one
RECURSIVE wait_task_scan(_, _)
wait_task_scan(tl, i) ==
    IF i > Len(tl) THEN 0
    ELSE IF tl[i].ref = "WaitUserRequest" /\ tl[i].status = "IN_PROGRESS" /\ tl[i].id # NoId
    THEN i
    ELSE wait_task_scan(tl, i + 1)

\* one pass of "for attempt in range(max_retries)".  executor.get_workflow is
\* not inside a try: when it raises, the route ends with the error
wait_task_attempt(w, fetch_ok, wf_tasks) ==
    IF ~fetch_ok
    THEN [w EXCEPT !.pc = "returned", !.why = "raised", !.polls = @ + 1, !.fails = @ + 1]
    ELSE IF wait_task_scan(wf_tasks, 1) # 0
    THEN [w EXCEPT !.pc = "returned", !.why = "redirect", !.polls = @ + 1,
                   !.ret = wf_tasks[wait_task_scan(wf_tasks, 1)].id]
    ELSE [w EXCEPT !.polls = @ + 1]

\* the for loop is over: the page "Nessun task disponibile al momento"
wait_task_exhausted(w) == [w EXCEPT !.pc = "returned", !.why = "no_task"]

InitForm ==
    /\ tasks = <<>>
    /\ tw = [NoTimed EXCEPT !.pc = "loop", !.ref = "WaitUserRequest"]
    /\ nruns = 1
    /\ ss = DEFAULTS
    /\ pc = "idle"
    /\ screen = {}
    /\ tr = NoTrace
    /\ loc = NoLoc
    /\ output = NoOutput
    /\ wt = NoWait
    /\ stuck = NoStuck

FormAttempt ==
    /\ tw.pc = "loop"
    /\ tw.polls < max_retries
    /\ \E fetch_ok \in BOOLEAN :
          tw' = wait_task_attempt(tw, fetch_ok, get_workflow_tasks(tasks, 1))
    /\ UNCHANGED <<tasks, nruns, ss, pc, screen, tr, loc, output, wt, stuck>>

FormExhausted ==
    /\ tw.pc = "loop"
    /\ tw.polls >= max_retries
    /\ tw' = wait_task_exhausted(tw)
    /\ UNCHANGED <<tasks, nruns, ss, pc, screen, tr, loc, output, wt, stuck>>

\* the engine schedules a task of the run
FormEngineSchedule ==
    /\ Len(tasks) < MaxFormTasks
    /\ \E ref_name \in FormRefs :
          tasks' = Append(tasks, Task(Len(tasks) + 1, 1, ref_name, "SCHEDULED", NoInput))
    /\ UNCHANGED <<nruns, ss, pc, screen, tr, loc, output, wt, tw, stuck>>

\* a task of the run is taken by its worker, then completed
FormEngineAdvance ==
    \E i \in 1..Len(tasks) :
        /\ tasks[i].status \in {"SCHEDULED", "IN_PROGRESS"}
        /\ tasks' = [tasks EXCEPT ![i].status =
                        IF @ = "SCHEDULED" THEN "IN_PROGRESS" ELSE "COMPLETED"]
        /\ UNCHANGED <<nruns, ss, pc, screen, tr, loc, output, wt, tw, stuck>>

FormStep == FormAttempt \/ FormExhausted

NextForm == FormAttempt \/ FormExhausted \/ FormEngineSchedule \/ FormEngineAdvance

SpecForm == InitForm /\ [][NextForm]_vars

\* the request handler runs on: each pass of the loop sleeps two seconds and
\* comes back
SpecFormFair == SpecForm /\ WF_vars(FormStep)

---------------------------------------------------------------------------
(* Claims about fetch_task_by_ref *)

\* C3: fetch_task_by_ref returns None or a task of the fetched list that has
\* the requested reference name and status SCHEDULED, IN_PROGRESS or PENDING
C3_LocateOnlyActionable ==
    loc.called =>
        \/ loc.ret = 0
        \/ /\ loc.ret \in 1..Len(tasks)
           /\ tasks[loc.ret].ref = loc.ref
           /\ tasks[loc.ret].status \in {"SCHEDULED", "IN_PROGRESS", "PENDING"}

\* a task is returned although an earlier task with the same name is not actionable
C3_Witness ==
    /\ loc.called /\ loc.ret > 1
    /\ \E j \in 1..(loc.ret - 1) :
          tasks[j].ref = loc.ref /\ tasks[j].status = "COMPLETED"

LocCandidates ==
    { i \in 1..Len(tasks) :
        tasks[i].ref = loc.ref /\ tasks[i].status \in {"SCHEDULED", "IN_PROGRESS", "PENDING"} }

\* C4: when the fetch succeeds the result is the first task, in engine order,
\* with the requested name and an actionable status, and None exactly when the
\* list holds no such task
C4_LocateFirstMatch ==
    (loc.called /\ loc.ok) =>
        /\ (loc.ret = 0) <=> (LocCandidates = {})
        /\ loc.ret # 0 =>
              /\ loc.ret \in LocCandidates
              /\ \A j \in LocCandidates : loc.ret <= j

\* two actionable candidates behind a non-actionable task of the same name
C4_Witness ==
    /\ loc.called /\ loc.ok
    /\ Cardinality(LocCandidates) >= 2
    /\ loc.ret > 1
    /\ tasks[1].ref = loc.ref

---------------------------------------------------------------------------
(* Claims about wait_for_output_key *)

KeySet == output.present /\ output.map[wt.key] \notin {Absent, ""}

\* C6: once the key holds a non-empty value and keeps it, the wait ends: the
\* first poll that the gateway answers after the key is set returns its value
C6_WaitReturnsOnceKeySet ==
    /\ [][ (wt.pc = "polling" /\ wt'.tick # wt.tick /\ wt'.last = "ok" /\ KeySet) =>
              (wt'.pc = "returned" /\ wt'.ret = output.map[wt.key]) ]_vars
    /\ (wt.impl = "manager") => ((<>[]KeySet) => <>(wt.pc = "returned"))

\* the manager's wait returned at the first poll that saw the key set, after
\* polls that did not
C6_Witness ==
    /\ wt.pc = "returned"
    /\ wt.impl = "manager"
    /\ wt.misses >= 2
    /\ wt.key = "itinerary"

---------------------------------------------------------------------------
(* Claims about complete_task and the pages that call it *)

\* the call of complete_task that the step just taken has made
Called == tr'.complete.called

\* C1: a complete_task call for a task id that an earlier call has already
\* completed (its update_task was answered), and that the gateway does not
\* fail, makes no further update_task call and returns success
C1_SecondCallShortCircuits ==
    [][ (/\ Called
         /\ tr'.complete.task_id \in 1..Len(tasks)
         /\ tasks[tr'.complete.task_id].updates >= 1
         /\ \A k \in 1..Len(tr'.complete.trace) : tr'.complete.trace[k].ok)
        => /\ tr'.complete.ok
           /\ \A k \in 1..Len(tr'.complete.trace) :
                 tr'.complete.trace[k].op # "update_task" ]_vars

\* C2: in one session, whatever the user does, the engine answers at most one
\* update_task for each task id
C2_AtMostOneUpdatePerTask ==
    \A i \in 1..Len(tasks) : tasks[i].updates <= 1

\* C7: complete_task calls get_task for the task id, then poll_task for the
\* task's type as worker "streamlit_ui", then update_task with the task id, the
\* session's run id, the worker id, the status and the output; a call is made
\* only when every call before it returned, and the sequence stops short only
\* at a call that raised
C7_CompleteCallOrder ==
    tr.complete.called =>
        LET c == tr.complete
            t == tr.complete.trace
        IN /\ Len(t) \in 1..3
           /\ t[1].op = "get_task" /\ t[1].task_id = c.task_id
           /\ Len(t) >= 2 =>
                 /\ t[1].ok
                 /\ t[2].op = "poll_task"
                 /\ t[2].task_type = tasks[c.task_id].type
                 /\ t[2].worker_id = "streamlit_ui"
           /\ Len(t) = 3 =>
                 /\ t[2].ok
                 /\ t[3].op = "update_task"
                 /\ t[3].task_id = c.task_id
                 /\ t[3].wf = ss.workflow_id
                 /\ t[3].worker_id = "streamlit_ui"
                 /\ t[3].status = c.status
                 /\ t[3].out = c.out
           /\ Len(t) < 3 => ~t[Len(t)].ok

\* poll_task raised: get_task and poll_task were called, update_task was not
C7_Witness ==
    /\ tr.complete.called
    /\ Len(tr.complete.trace) = 2
    /\ ~tr.complete.trace[2].ok
    /\ tasks[tr.complete.task_id].updates = 0

C8Keys == {"travel_options", "itinerary", "itinerary_confirmed", "confirmation_response",
           "selected_travel_option", "choice_task_completed", "workflow_completed",
           "current_step"}

\* C8: when one of the gateway calls of complete_task raises, complete_task
\* returns False and the script run that made the call leaves travel_options,
\* itinerary, itinerary_confirmed, confirmation_response,
\* selected_travel_option, choice_task_completed, workflow_completed and
\* current_step as they were
C8_FailureRecordsNothing ==
    [][ (/\ Called
         /\ \E k \in 1..Len(tr'.complete.trace) : ~tr'.complete.trace[k].ok)
        => /\ ~tr'.complete.ok
           /\ \A key \in C8Keys : ss'[key] = ss[key] ]_vars

\* update_task raised while an option of a short trip was being chosen
C8_Witness ==
    /\ tr.complete.called
    /\ ~tr.complete.ok
    /\ Len(tr.complete.trace) = 3
    /\ ss.travel_options # NoOptions
    /\ tr.complete.task_id = ss.choice_travel_city_task_id
    /\ ss.selected_travel_option = NoId

TaskIdKeys == {"pref_task_id", "show_task_id", "choice_travel_city_task_id",
               "request_confirmation_task_id", "show_more_info_task_id"}

\* C9: once complete_task has succeeded for a task id, no task-id key of the
\* session holds that id any more
C9_CompletedIdCleared ==
    (tr.complete.called /\ tr.complete.ok) =>
        \A key \in TaskIdKeys : ss[key] # tr.complete.task_id

---------------------------------------------------------------------------
(* Claims about cache_task *)

\* the actionable tasks with a reference name in the session's run, as the
\* engine lists them when the script run starts
CacheCandidates(ref_name) ==
    { i \in 1..Len(tasks) : /\ tasks[i].run = ss.workflow_id
                            /\ tasks[i].ref = ref_name
                            /\ tasks[i].status \in ActionableStatuses }

FirstOf(S) == CHOOSE i \in S : \A j \in S : i <= j

---------------------------------------------------------------------------
(* Error reporting of the task locator *)

\* C14: a fetch_task_by_ref call whose gateway request failed gives its
\* caller a result different from the one a successful fetch gives when no
\* actionable task with that reference name exists.
C14_FailureDistinct ==
    (loc.called /\ ~loc.ok) =>
        loc.ret # fetch_task_by_ref(TRUE, <<>>, loc.ref)

---------------------------------------------------------------------------
(* Error propagation of the waiters *)

\* C15: a poll of WorkflowManager.wait_for_output_key whose gateway request
\* raises a transport error ends the wait and hands the error to the caller;
\* it is not absorbed and retried.
C15_TransportErrorPropagates ==
    [][(WaitPollError /\ wt.impl = "manager") => wt'.pc = "raised"]_vars

\* C17: once an external cancellation signal is raised, a running wait
\* returns (it stops polling) after finitely many further polls.
C17_CancelStopsWait == wt.cancelled ~> (wt.pc # "polling")

---------------------------------------------------------------------------
(* wait_for_task_to_be_available *)

\* the tasks a poll of the wait can return
TimedCandidates ==
    { i \in 1..Len(tasks) :
        tasks[i].ref = tw.ref /\ tasks[i].status \in ActionableStatuses }

\* a poll step of wait_for_task_to_be_available
TimedPolled == tw'.polls = tw.polls + 1

\* C16: wait_for_task_to_be_available with a finite timeout terminates; a
\* poll is made only while the elapsed time is below the timeout; a poll that
\* finds an actionable task with the requested reference name returns that
\* task's id at once; and the timeout result (None) is returned only once the
\* elapsed time has reached the timeout.
C16_TimedWaitTerminates ==
    /\ <>(tw.pc = "returned")
    /\ [][TimedPolled => (tw.pc = "loop" /\ tw.elapsed < tw.timeout)]_vars
    /\ [][(TimedPolled /\ tw'.fails = tw.fails /\ TimedCandidates # {})
             => (/\ tw'.pc = "returned"
                 /\ tw'.why = "found"
                 /\ tw'.ret = FirstOf(TimedCandidates))]_vars
    /\ [][(tw.pc = "loop" /\ tw'.pc = "returned" /\ tw'.why = "found")
             => (TimedPolled /\ tw'.ret \in TimedCandidates)]_vars
    /\ [](tw.pc = "returned" /\ tw.why = "timeout"
             => tw.ret = NoId /\ tw.elapsed >= tw.timeout)
    /\ [][tw.pc = "returned" => tw' = tw]_vars

\* a wait that polled at least twice and then ran into its timeout
C16_Witness ==
    /\ tw.pc = "returned"
    /\ tw.why = "timeout"
    /\ tw.polls >= 2
    /\ tw.ret = NoId

\* C18: a wait all of whose polls met a gateway transport error gives its
\* caller a result different from the one a wait gives that ran into its
\* timeout.
C18_TimeoutDistinct ==
    (tw.pc = "returned" /\ tw.polls > 0 /\ tw.fails = tw.polls) =>
        tw.ret # wait_for_task_to_be_available_expire(tw).ret

---------------------------------------------------------------------------
(* Order of the completions *)

\* the complete_task invocation of the step sent an update_task call that the
\* engine answered
UpdateSent ==
    /\ Len(tr'.complete.trace) = 3
    /\ tr'.complete.trace[3].ok

\* C19 as stated: every complete_task invocation is followed by one
\* update_task call that the engine receives.
C19_OneUpdatePerInvocation ==
    [][Called => tasks'[tr'.complete.task_id].updates
                    = tasks[tr'.complete.task_id].updates + 1]_vars

\* C19, restated: the engine receives an update_task call only inside a
\* complete_task invocation, for that invocation's task and with that
\* invocation's status and output, and at most one per invocation: exactly
\* one when get_task, poll_task and update_task all returned, none when one
\* of them raised.  The invocation returns after its update, so the updates
\* are the invocations that reached the engine, in the client's order.
C19_UpdatesFollowInvocations ==
    [][ /\ Len(tasks') >= Len(tasks)
        /\ \A i \in 1..Len(tasks) :
              tasks'[i].updates =
                  tasks[i].updates
                  + (IF Called /\ UpdateSent /\ i = tr'.complete.task_id THEN 1 ELSE 0)
        /\ (Called /\ UpdateSent) =>
              /\ tr'.complete.trace[3].op = "update_task"
              /\ tr'.complete.trace[3].task_id = tr'.complete.task_id
              /\ tr'.complete.trace[3].status = tr'.complete.status
              /\ tr'.complete.trace[3].out = tr'.complete.out
              /\ tasks[tr'.complete.task_id].status \notin TerminalStatuses =>
                    /\ tasks'[tr'.complete.task_id].status = tr'.complete.status
                    /\ tasks'[tr'.complete.task_id].out = tr'.complete.out ]_vars

\* two invocations for two different tasks have each delivered their update,
\* the later one in the script run just made
C19_Witness ==
    /\ tr.complete.called
    /\ tr.complete.ok
    /\ tasks[tr.complete.task_id].updates = 1
    /\ \E i \in 1..Len(tasks) :
          i # tr.complete.task_id /\ tasks[i].updates >= 1

---------------------------------------------------------------------------
(* is_workflow_stuck after the preferences *)

\* the run's list is a completed UserPreferences and nothing else
OnlyPreferences ==
    /\ Len(tasks) = 1
    /\ tasks[1].ref = "UserPreferences"
    /\ tasks[1].status = "COMPLETED"

\* the run's list is a completed UserPreferences and one SCHEDULED task
PreferencesAndFollowOn(i, j) ==
    /\ Len(tasks) = 2
    /\ {i, j} = {1, 2}
    /\ tasks[i].ref = "UserPreferences"
    /\ tasks[i].status = "COMPLETED"
    /\ tasks[j].status = "SCHEDULED"

\* C20 as stated: is_workflow_stuck reports stuck for a run whose only task
\* is a completed UserPreferences, and not stuck for a run that has one
\* SCHEDULED task besides it.
C20_FollowOnProgressing ==
    (stuck.called /\ stuck.ok) =>
        /\ OnlyPreferences => stuck.analysis.is_stuck
        /\ \A i, j \in 1..Len(tasks) :
              PreferencesAndFollowOn(i, j) => ~stuck.analysis.is_stuck

\* C20, restated: stuck for a run whose only task is a completed
\* UserPreferences; not stuck for a run that has besides it one SCHEDULED task
\* whose reference name is not LogUnhandledDuration; with a SCHEDULED
\* LogUnhandledDuration the run is reported stuck, for the unhandled duration.
C20_StuckAfterPreferences ==
    (stuck.called /\ stuck.ok) =>
        /\ OnlyPreferences =>
              /\ stuck.analysis.is_stuck
              /\ stuck.analysis.reason
                    = "Workflow stopped after UserPreferences - check switch logic"
        /\ \A i, j \in 1..Len(tasks) :
              PreferencesAndFollowOn(i, j) =>
                 (stuck.analysis.is_stuck <=> tasks[j].ref = "LogUnhandledDuration")

\* the run has moved on to a SCHEDULED ShowItinerary and is reported not stuck
C20_Witness ==
    /\ stuck.called
    /\ stuck.ok
    /\ PreferencesAndFollowOn(1, 2)
    /\ tasks[2].ref = "ShowItinerary"
    /\ ~stuck.analysis.is_stuck

---------------------------------------------------------------------------
(* SessionState.reset *)

\* C13: after SessionState.reset() no entry written before it survives: every
\* entry of the session is a key of DEFAULTS at its default value, so that a
\* key outside DEFAULTS written with set() is absent again.
C13_ResetClearsAll ==
    [][SessReset => \A k \in DOMAIN ss' :
                       k \in DOMAIN DEFAULTS /\ ss'[k] = DEFAULTS[k]]_vars

---------------------------------------------------------------------------
(* The cached task ids and the run they belong to *)

\* the task-id keys the session holds
CachedKeys == (TaskIdKeys \cup {"choice_task_id"}) \cap DOMAIN ss

\* C11: every non-empty cached task id is the id of a task of the run whose
\* id workflow_id holds, and right after workflow_id changes (a new run is
\* started) or is cleared (reset) every cached task-id key is None.
C11_CachedIdsOfCurrentRun ==
    /\ [](\A k \in CachedKeys :
             ss[k] # NoId => (/\ ss.workflow_id # NoId
                              /\ ss[k] \in 1..Len(tasks)
                              /\ tasks[ss[k]].run = ss.workflow_id))
    /\ [][ss'.workflow_id # ss.workflow_id
             => \A k \in CachedKeys : ss'[k] = NoId]_vars

\* the second run has just been started, every key is None, and the first
\* run still has an actionable UserPreferences task, which pref_task_id held
\* or could have held
C11_Witness ==
    /\ ss.workflow_id = 2
    /\ pc = "rerun"
    /\ \A k \in CachedKeys : ss[k] = NoId
    /\ \E i \in 1..Len(tasks) :
          /\ tasks[i].run = 1
          /\ tasks[i].ref = "UserPreferences"
          /\ tasks[i].status \in ActionableStatuses

\* C12: SessionState.reset() leaves every cached task-id key None; a
\* cache_task call that finds the keys None queries the gateway; and a call
\* for a key that is None stores the id of the first actionable task with the
\* reference name in the response for the current run, or nothing, never an
\* id of another run that was cached before the reset.
C12_ResetThenFreshId ==
    /\ [][CacheReset => (/\ ss'.workflow_id = NoId
                         /\ \A k \in CachedKeys : ss'[k] = NoId)]_vars
    /\ [][(CacheTask /\ \A k \in CachedKeys : ss[k] = NoId)
             => Len(tr'.cache) = 1]_vars
    /\ [][\A n \in 1..Len(tr'.cache) :
             tr'.cache[n].before = NoId =>
                /\ tr'.cache[n].after =
                      IF tr'.cache[n].ok /\ CacheCandidates(tr'.cache[n].ref) # {}
                      THEN FirstOf(CacheCandidates(tr'.cache[n].ref))
                      ELSE NoId
                /\ ss'[tr'.cache[n].key] = tr'.cache[n].after]_vars

\* after a reset and a new start the app has cached the UserPreferences task
\* of the second run, although the first run's UserPreferences task, earlier
\* in the engine's list, is still actionable
C12_Witness ==
    /\ ~IsDashboard
    /\ ss.workflow_id = 2
    /\ Len(tr.cache) = 1
    /\ tr.cache[1].before = NoId
    /\ tr.cache[1].after = ss.pref_task_id
    /\ ss.pref_task_id # NoId
    /\ tasks[ss.pref_task_id].run = 2
    /\ \E i \in 1..Len(tasks) :
          /\ i < ss.pref_task_id
          /\ tasks[i].run = 1
          /\ tasks[i].ref = "UserPreferences"
          /\ tasks[i].status \in ActionableStatuses

---------------------------------------------------------------------------
(* The rules of is_workflow_stuck *)

\* the list holds the fallback task
HasUnhandled == \E i \in 1..Len(tasks) : tasks[i].ref = "LogUnhandledDuration"

CountOf(status) == Cardinality({ i \in 1..Len(tasks) : tasks[i].status = status })

\* C21 as stated: without a fallback task in the list, stuck is reported
\* exactly when one task is COMPLETED and none is SCHEDULED.
C21_StuckIffCounts ==
    (stuck.called /\ stuck.ok /\ ~HasUnhandled) =>
        (stuck.analysis.is_stuck <=>
            (CountOf("COMPLETED") = 1 /\ CountOf("SCHEDULED") = 0))

\* C21, restated: without a fallback task in the list, stuck is reported
\* exactly when one task is COMPLETED, that task is UserPreferences, and none
\* is SCHEDULED; in every other case the run is reported as not stuck.
C21_StuckIffOnlyPreferencesDone ==
    (stuck.called /\ stuck.ok /\ ~HasUnhandled) =>
        (stuck.analysis.is_stuck <=>
            (/\ CountOf("COMPLETED") = 1
             /\ CountOf("SCHEDULED") = 0
             /\ \E i \in 1..Len(tasks) :
                   tasks[i].status = "COMPLETED" /\ tasks[i].ref = "UserPreferences"))

\* the only completed task is ShowItinerary, nothing is scheduled, and the run
\* is reported as not stuck
C21_Witness ==
    /\ stuck.called
    /\ stuck.ok
    /\ ~HasUnhandled
    /\ CountOf("COMPLETED") = 1
    /\ CountOf("SCHEDULED") = 0
    /\ \E i \in 1..Len(tasks) :
          tasks[i].status = "COMPLETED" /\ tasks[i].ref = "ShowItinerary"
    /\ ~stuck.analysis.is_stuck

\* C22: with a LogUnhandledDuration task in the list, in any status and at
\* any position, is_workflow_stuck reports stuck with the unhandled-duration
\* reason, also when the count rule applies to the list.
C22_UnhandledFirst ==
    (stuck.called /\ stuck.ok /\ HasUnhandled) =>
        /\ stuck.analysis.is_stuck
        /\ stuck.analysis.has_unhandled_duration
        /\ stuck.analysis.reason = "Duration of 4 days is not handled by the workflow"

\* the fallback task is last in the list and in progress, UserPreferences is
\* the one completed task and nothing is scheduled: both rules apply
C22_Witness ==
    /\ stuck.called
    /\ stuck.ok
    /\ Len(tasks) = 2
    /\ tasks[1].ref = "UserPreferences" /\ tasks[1].status = "COMPLETED"
    /\ tasks[2].ref = "LogUnhandledDuration" /\ tasks[2].status = "IN_PROGRESS"
    /\ stuck.analysis.reason = "Duration of 4 days is not handled by the workflow"

\* C28 as stated: when stuck is reported by the count rule, no task of the
\* list is SCHEDULED, IN_PROGRESS or PENDING.
C28_StuckNoActionable ==
    (stuck.called /\ stuck.ok /\ ~HasUnhandled /\ stuck.analysis.is_stuck) =>
        \A i \in 1..Len(tasks) : tasks[i].status \notin ActionableStatuses

\* C28, restated: when stuck is reported by the count rule, no task of the
\* list is SCHEDULED; tasks that are IN_PROGRESS or PENDING may be in it.
C28_StuckNoScheduled ==
    (stuck.called /\ stuck.ok /\ ~HasUnhandled /\ stuck.analysis.is_stuck) =>
        /\ \A i \in 1..Len(tasks) : tasks[i].status # "SCHEDULED"
        /\ stuck.analysis.scheduled_tasks = 0
        /\ stuck.analysis.reason
              = "Workflow stopped after UserPreferences - check switch logic"

\* stuck is reported for a run whose ShowItinerary task is in progress
C28_Witness ==
    /\ stuck.called
    /\ stuck.ok
    /\ stuck.analysis.is_stuck
    /\ ~HasUnhandled
    /\ \E i \in 1..Len(tasks) :
          tasks[i].ref = "ShowItinerary" /\ tasks[i].status = "IN_PROGRESS"

---------------------------------------------------------------------------
(* Starting a run *)

\* C25: a click on the start button either stores the run id the gateway gave
\* (the engine's newest run) in a session reset to its defaults, with
\* current_step 1, or, when the gateway failed, leaves the session and the
\* engine as they were: no reset, workflow_id unset, current_step not advanced.
C25_StartFailureLeavesSession ==
    [][ClickStart =>
          \/ /\ nruns' = nruns + 1
             /\ ss' = [DEFAULTS EXCEPT !.workflow_id = nruns + 1, !.current_step = 1]
          \/ /\ nruns' = nruns
             /\ tasks' = tasks
             /\ ss' = ss
             /\ ss'.workflow_id = NoId
             /\ "Error starting workflow" \in screen']_vars

\* the start button was clicked and the gateway failed
C25_Witness ==
    /\ "Error starting workflow" \in screen
    /\ ss.workflow_id = NoId
    /\ ss.current_step = 0
    /\ nruns = 0

---------------------------------------------------------------------------
(* The checks of the preferences form *)

\* the forms that the checks of show_preferences_form turn down
RejectedForms ==
    { f \in [duration : Durations, period : {None, "date"},
             destinations : BOOLEAN, styles : BOOLEAN] :
        \/ f.duration = 4
        \/ f.period = None
        \/ (~f.destinations /\ ~f.styles) }

FormInput(f, n1) ==
    [NoIn EXCEPT !.duration = f.duration, !.period = f.period,
                 !.destinations = f.destinations, !.styles = f.styles, !.net1 = n1]

\* C29: a submission with duration 4, with no travel period, or with neither
\* a destination type nor a vacation style never reaches the engine:
\* complete_task is not called, no task changes, and trip_duration,
\* is_short_trip, travel_options and itinerary are left as they were.
C29_RejectedFormStaysLocal ==
    [][\/ /\ ~tr'.complete.called
          /\ tasks' = tasks
          /\ \A k \in {"trip_duration", "is_short_trip", "travel_options", "itinerary"} :
                ss'[k] = ss[k]
       \/ ~CanClick("submit")
       \/ \A f \in RejectedForms, n1 \in BOOLEAN :
             ~ScriptRun("submit", FormInput(f, n1))]_vars

\* a form with duration 4 was submitted while the preference task was cached
\* and actionable: the warning is shown and the task is untouched
C29_Witness ==
    /\ "The current workflow doesn't support exactly 4-day trips" \in screen
    /\ ss.pref_task_id # NoId
    /\ tasks[ss.pref_task_id].status = "SCHEDULED"
    /\ tasks[ss.pref_task_id].updates = 0
    /\ ss.trip_duration = NoId

---------------------------------------------------------------------------
(* The stuck check and the waits *)

\* C23: a poll of a wait (for ChoiceTravelCity, ShowItinerary or
\* ShowMoreInformation) that does not find its task is followed by a run of
\* is_workflow_stuck before the wait polls again.
C23_StuckCheckedOnMiss ==
    [][((PollChoice \/ PollItinerary \/ PollExtraInfo) /\ pc' = pc)
          => tr'.stuck_checked]_vars

---------------------------------------------------------------------------
(* The poll of complete_task *)

\* C27: the poll of a complete_task call acquires the task whose id the call
\* then updates and no other one: no task but that one changes in the call,
\* also when another run has a SCHEDULED task of the same type.
C27_PollAcquiresOwnTask ==
    [][Called => \A i \in 1..Len(tasks) :
                    i # tr'.complete.task_id => tasks'[i] = tasks[i]]_vars

---------------------------------------------------------------------------
(* The frame of fetch_task_by_ref *)

\* C24: fetch_task_by_ref has no side effect: whatever it returns, a task, None
\* for no match or None after a failed request, the call changes neither the
\* engine's runs and tasks nor any entry of the session state.
C24_LocateReadOnly ==
    [][loc'.called => (tasks' = tasks /\ nruns' = nruns /\ ss' = ss)]_vars

\* a call that returned a SCHEDULED task, which a poll would have acquired
C24_Witness ==
    /\ loc.called /\ loc.ok
    /\ loc.ret # 0
    /\ tasks[loc.ret].status = "SCHEDULED"
    /\ ss = DEFAULTS

---------------------------------------------------------------------------
(* The workflow step *)

\* C26: after any sequence of initialize, reset, advance_step and set_step
\* calls current_step is an integer in 0..3: advance_step adds 1 but leaves 3
\* unchanged, and set_step(s) stores s clamped into 0..3.
C26_StepInRange ==
    /\ ss.current_step \in 0..3
    /\ [][/\ ss'.current_step \in 0..3
          /\ SessAdvance =>
                ss'.current_step = IF ss.current_step = 3 THEN 3
                                   ELSE ss.current_step + 1
          /\ \A s \in (0 - MaxStepInput)..MaxStepInput :
                SessSetStep(s) =>
                   ss'.current_step = IF s < 0 THEN 0 ELSE IF s > 3 THEN 3 ELSE s]_vars

\* advance_step called at step 3, next to a result of another page
C26_Witness ==
    /\ pc = "advance_step"
    /\ ss.current_step = 3
    /\ ss.workflow_completed

---------------------------------------------------------------------------
(* What the task waiters return *)

---------------------------------------------------------------------------
(* The shape of the stuck analysis *)

\* C35: the result of is_workflow_stuck has a reason other than None if and
\* only if is_stuck is true; when the gateway fetch fails the result holds the
\* key error alone, without an is_stuck flag, so that the caller, which reads
\* the flag with get("is_stuck"), takes a failed classification as not stuck.
C35_ReasonIffStuck ==
    stuck.called =>
        /\ stuck.ok =>
              /\ {"is_stuck", "reason"} \subseteq stuck.analysis.keys
              /\ "error" \notin stuck.analysis.keys
              /\ (stuck.analysis.reason # None) <=> stuck.analysis.is_stuck
        /\ ~stuck.ok =>
              /\ stuck.analysis.keys = {"error"}
              /\ ~dict_get_flag(stuck.analysis, "is_stuck")
              /\ ~dict_get_flag(stuck.analysis, "has_unhandled_duration")

\* the classification failed for a run that holds the unhandled-branch task
C35_Witness ==
    /\ stuck.called /\ ~stuck.ok
    /\ \E i \in 1..Len(tasks) : tasks[i].ref = "LogUnhandledDuration"
    /\ stuck.analysis.keys = {"error"}

---------------------------------------------------------------------------
(* cache_task_with_wait *)

\* C31: cache_task_with_wait makes no gateway call when the state key already
\* holds a task id or when no workflow is started, and its boolean result is
\* True exactly when the state key holds a task id after the call; when it
\* waits, it stores only the task id wait_for_task_to_be_available returned and
\* leaves the key None on a timeout.
C31_CacheWithWait ==
    [][/\ (CacheWaitCall /\ tw'.pc = "loop") =>
             /\ ss[StateKeyOf(tw'.ref)] = NoId
             /\ ss.workflow_id # NoId
       /\ (CacheWaitCall /\ tw'.pc # "loop") =>
             /\ ss[StateKeyOf(tw'.ref)] # NoId \/ ss.workflow_id = NoId
             /\ tw'.polls = 0
             /\ tr'.cache[1].ok <=> (ss'[StateKeyOf(tw'.ref)] # NoId)
       /\ CacheWaitReturn =>
             /\ tr'.cache[1].ok <=> (ss'[StateKeyOf(tw.ref)] # NoId)
             /\ ss'[StateKeyOf(tw.ref)] = tw.ret
             /\ tw.why = "timeout" => ss'[StateKeyOf(tw.ref)] = NoId
             /\ \A k \in DOMAIN ss : k # StateKeyOf(tw.ref) => ss'[k] = ss[k]
       /\ (CacheWaitCall \/ CacheWaitReturn) => tasks' = tasks
       /\ (TimedPoll \/ TimedExpire) => ss' = ss]_vars

\* a wait that polled, timed out and left the key None although the run holds
\* a task with the reference name, and the call returned False
C31_Witness ==
    /\ tw.pc = "stored"
    /\ tw.why = "timeout"
    /\ tw.polls > 0
    /\ ss[StateKeyOf(tw.ref)] = NoId
    /\ ~tr.cache[1].ok
    /\ \E i \in 1..Len(tasks) : tasks[i].ref = tw.ref

---------------------------------------------------------------------------
(* The branch on the trip duration *)

\* C32: after a successful preferences submission the session waits for
\* ChoiceTravelCity exactly when the duration is at most 3 and for
\* ShowItinerary otherwise; and in every reachable state is_short_trip is true
\* iff trip_duration is set and at most 3, and travel_options is set only if
\* is_short_trip is true.
C32_BranchOnDuration ==
    /\ [](ss.is_short_trip <=> (ss.trip_duration # NoId /\ ss.trip_duration <= 3))
    /\ [](ss.travel_options # NoOptions => ss.is_short_trip)
    /\ [][(/\ tr'.complete.called /\ tr'.complete.ok
            /\ tasks[tr'.complete.task_id].ref = "UserPreferences") =>
             /\ ss'.trip_duration # NoId
             /\ ss'.trip_duration <= 3 => pc' = "wait_choice"
             /\ ss'.trip_duration > 3 => pc' = "wait_itin"]_vars

\* a short trip whose options have arrived
C32_Witness ==
    /\ ss.trip_duration = 3
    /\ ss.is_short_trip
    /\ ss.travel_options # NoOptions
    /\ tr.complete.called /\ tr.complete.ok

---------------------------------------------------------------------------
(* The selected travel option *)

\* C33: in every reachable session state selected_travel_option is set if and
\* only if choice_task_completed is true, so the branch of
\* show_travel_options_selection for an option that is selected but not yet
\* completed, which sleeps and reruns the page, is never entered.
C33_SelectedIffCompleted ==
    (ss.selected_travel_option # NoId) <=> ss.choice_task_completed

\* an option was chosen and its ChoiceTravelCity task completed
C33_Witness ==
    /\ ss.selected_travel_option = 2
    /\ ss.choice_task_completed
    /\ ss.itinerary = "Paris"
    /\ \E i \in 1..Len(tasks) :
          tasks[i].ref = "ChoiceTravelCity" /\ tasks[i].status = "COMPLETED"

---------------------------------------------------------------------------
(* The order of the session's milestones *)

\* the UserPreferences task of the session's run is COMPLETED
PreferencesCompleted ==
    \E i \in 1..Len(tasks) :
       /\ tasks[i].run = ss.workflow_id
       /\ tasks[i].ref = "UserPreferences"
       /\ tasks[i].status = "COMPLETED"

\* the step made a complete_task call that returned True for a task with
\* this reference name
CompletedNow(ref_name) ==
    /\ tr'.complete.called
    /\ tr'.complete.ok
    /\ tr'.complete.task_id \in 1..Len(tasks)
    /\ tasks[tr'.complete.task_id].ref = ref_name

---------------------------------------------------------------------------
(* The wait_task route of the form app *)

\* the WaitUserRequest tasks of the run that are IN_PROGRESS
FormCandidates ==
    { i \in 1..Len(tasks) :
        tasks[i].ref = "WaitUserRequest" /\ tasks[i].status = "IN_PROGRESS" }

\* a fetch of the route
FormFetched == tw'.polls = tw.polls + 1

\* C36: the wait_task route always terminates after at most 5 fetches of the
\* run: it redirects to the form at the first fetch that contains a
\* WaitUserRequest task in status IN_PROGRESS with a task id, using that
\* task's id, and otherwise returns the "no task available" page after the
\* fifth fetch.
C36_WaitTaskTerminates ==
    /\ <>(tw.pc = "returned")
    /\ [](tw.polls <= 5)
    /\ [][(FormFetched /\ FormCandidates # {})
             => (tw'.pc = "returned" /\ tw'.why = "redirect"
                 /\ tw'.ret = FirstOf(FormCandidates))]_vars
    /\ [][(FormFetched /\ FormCandidates = {}) => tw'.pc = "loop"]_vars
    /\ [](tw.pc = "returned" /\ tw.why # "redirect"
             => tw.why = "no_task" /\ tw.polls = 5)

\* C36, amended: a fetch that raises ends the route with the gateway's error
\* at that fetch; the route redirects at the first answered fetch that holds
\* such a task, and returns the "no task available" page after five answered
\* fetches that held none.
C36_WaitTaskTerminatesOrRaises ==
    /\ <>(tw.pc = "returned")
    /\ [](tw.polls <= 5)
    /\ [][(FormFetched /\ tw'.fails = tw.fails /\ FormCandidates # {})
             => (tw'.pc = "returned" /\ tw'.why = "redirect"
                 /\ tw'.ret = FirstOf(FormCandidates))]_vars
    /\ [][(FormFetched /\ tw'.fails = tw.fails /\ FormCandidates = {})
             => tw'.pc = "loop"]_vars
    /\ [][(FormFetched /\ tw'.fails # tw.fails)
             => (tw'.pc = "returned" /\ tw'.why = "raised" /\ tw'.ret = NoId)]_vars
    /\ [](tw.pc = "returned" /\ tw.why \notin {"redirect", "raised"}
             => tw.why = "no_task" /\ tw.polls = 5 /\ tw.ret = NoId)
    /\ [][tw.pc = "returned" => tw' = tw]_vars

\* the redirect came at the third fetch, to the second WaitUserRequest task
C36_Witness ==
    /\ tw.pc = "returned" /\ tw.why = "redirect"
    /\ tw.polls = 3
    /\ tw.ret > 1
    /\ \E j \in 1..(tw.ret - 1) : tasks[j].ref = "WaitUserRequest"

=============================================================================
